---- MODULE Spec2Model ----
(***************************************************************************)
(* A model of proprdb: the runtime library (rt/runtime.go) and the         *)
(* generated per-type table modules and container that call into it.       *)
(* The store is the set of SQLite tables the runtime bootstraps: one       *)
(* table per message type, _deleted (tombstones), _sync (per-remote        *)
(* watermarks) and _unknown_types (quarantine).                            *)
(***************************************************************************)
EXTENDS Integers, Sequences, FiniteSets, TLC

\* ------------------------------------------------------------------ bounds

\* Largest atNs carried by an inbound JSONL record (records range over -1..MaxAtNs).
MaxAtNs == 2
\* Longest JSONL stream handed to one ReadJSONL call.
MaxBatch == 2
\* Number of operations in one behaviour of Spec.
MaxOps == 4
\* Number of local operations that build the store before the import of SpecImport.
MaxPre == 2
\* Number of operations in one behaviour of SpecCRUD.
MaxCrudOps == 4
\* Number of operations in one behaviour of SpecInit.
MaxInitOps == 4
\* Number of operations in one behaviour of SpecExport.
MaxExportOps == 5
\* Number of runtime calls in one behaviour of SpecQuarantine.
MaxQuarantineOps == 4
\* Number of UnknownInsert calls in one behaviour of SpecReplay.
MaxReplayInserts == 3
\* Longest JSONL stream imported in SpecDrain.
MaxDrainBatch == 3

\* ------------------------------------------------------- names and catalog

PersonTableName == "generatedtest_example_person"
NoteTableName == "generatedtest_example_note"
PersonTypeName == "generatedtest.example.Person"
NoteTypeName == "generatedtest.example.Note"
unknownTypeName == "generatedtest.example.UnknownThing"

CoreTableDeletedName == "_deleted"
CoreTableSyncName == "_sync"
CoreTableSchemaStateName == "_proprdb_schema"
CoreTableUnknownName == "_unknown_types"

GeneratedTableDescriptor(tableName, typeName, isCore, syncEnabled) ==
    [TableName |-> tableName, TypeName |-> typeName, IsCore |-> isCore,
     SyncEnabled |-> syncEnabled]

\* The descriptors of the four core tables, as every container lists them.
CoreTableDescriptors ==
    << GeneratedTableDescriptor(CoreTableDeletedName, "", TRUE, FALSE),
       GeneratedTableDescriptor(CoreTableSyncName, "", TRUE, FALSE),
       GeneratedTableDescriptor(CoreTableSchemaStateName, "", TRUE, FALSE),
       GeneratedTableDescriptor(CoreTableUnknownName, "", TRUE, FALSE) >>

\* A mutated catalog: the omit_sync option of Note is lost.
TableDescriptorsAllSync ==
    << GeneratedTableDescriptor(PersonTableName, PersonTypeName, FALSE, TRUE),
       GeneratedTableDescriptor(NoteTableName, NoteTypeName, FALSE, TRUE) >>
        \o CoreTableDescriptors

\* The container's catalog: the generated tables, then the core tables.
TableDescriptors ==
    << GeneratedTableDescriptor(PersonTableName, PersonTypeName, FALSE, TRUE),
       GeneratedTableDescriptor(NoteTableName, NoteTypeName, FALSE, FALSE) >>
        \o CoreTableDescriptors

\* The descriptors of the generated (non-core) tables.
GeneratedTables == {TableDescriptors[i] : i \in {j \in DOMAIN TableDescriptors : ~TableDescriptors[j].IsCore}}

KnownTypeNames == {d.TypeName : d \in GeneratedTables}

DescriptorOfType(typeName) ==
    CHOOSE d \in GeneratedTables : d.TypeName = typeName

\* Object identifiers of the model, in the order SQLite compares them as TEXT.
customID == "018f4f3f-6f9f-7a1b-8f55-1234567890ab"
drainPersonID == "018f4f3f-6f9f-7a1b-8f55-1234567890ac"
unknownID == "018f4f3f-6f9f-7a1b-8f55-1234567890aa"
notAUUID == "not-a-uuid"

IdOrder == << unknownID, customID, drainPersonID >>
Ids == {customID, drainPersonID}

testRemoteA == "remote-a"
testRemoteWS == "   "
testRemoteEmpty == ""
Remotes == {testRemoteEmpty, testRemoteA, testRemoteWS}

\* strings.TrimSpace on the strings of the model.
TrimSpace(s) == IF s \in {"", " ", "   "} THEN "" ELSE s

\* ------------------------------------------------------------- identifiers

\* strings.Split(id, "-") of each identifier of the model: the length of each
\* part and whether hex.DecodeString accepts it.
SplitParts(id) ==
    CASE id = "" -> << [len |-> 0, hex |-> TRUE] >>
      [] id = notAUUID -> << [len |-> 3, hex |-> FALSE], [len |-> 1, hex |-> FALSE],
                             [len |-> 4, hex |-> FALSE] >>
      [] OTHER -> << [len |-> 8, hex |-> TRUE], [len |-> 4, hex |-> TRUE],
                     [len |-> 4, hex |-> TRUE], [len |-> 4, hex |-> TRUE],
                     [len |-> 12, hex |-> TRUE] >>

\* A mutated ValidateUUID: only the empty string is rejected.
ValidateUUIDNonEmpty(id) == id # ""

\* TRUE when ValidateUUID returns nil.
ValidateUUID(id) ==
    LET parts == SplitParts(id)
        lengths == << 8, 4, 4, 4, 12 >>
    IN  /\ Len(parts) = 5
        /\ \A index \in 1..5 : parts[index].len = lengths[index] /\ parts[index].hex

\* ------------------------------------------------------ Any-envelope codec

TypeURL(typeName) ==
    CASE typeName = PersonTypeName -> "type.googleapis.com/generatedtest.example.Person"
      [] typeName = NoteTypeName -> "type.googleapis.com/generatedtest.example.Note"
      [] typeName = unknownTypeName -> "type.googleapis.com/generatedtest.example.UnknownThing"
      [] OTHER -> "type.googleapis.com/"

\* TypeNameFromURL on the @type values of the model: the text after the last
\* slash, or the whole URL when there is no slash or nothing follows it.
TypeNameFromURL(typeURL) ==
    CASE typeURL = "" -> ""
      [] typeURL = "type.googleapis.com/generatedtest.example.Person" -> PersonTypeName
      [] typeURL = "type.googleapis.com/generatedtest.example.Note" -> NoteTypeName
      [] typeURL = "type.googleapis.com/generatedtest.example.UnknownThing" -> unknownTypeName
      [] OTHER -> typeURL

\* TypeNameFromAnyJSON: the type name of a data envelope, or an error when
\* @type is missing or empty.
TypeNameFromAnyJSON(data) ==
    LET typeName == TypeNameFromURL(data.type)
    IN  [err |-> typeName = "", typeName |-> typeName]

\* MarshalAnyJSON of a payload and MarshalTypeOnlyAnyJSON of a type name.
MarshalAnyJSON(typeName, payload) == [type |-> TypeURL(typeName), payload |-> payload]
MarshalTypeOnlyAnyJSON(typeName) == [type |-> TypeURL(typeName), payload |-> ""]

\* One decoded JSONL line.
JSONLRecord(id, isDeleted, atNs, data) ==
    [malformed |-> FALSE, id |-> id, deleted |-> isDeleted, atNs |-> atNs, data |-> data]

\* A line json.Decoder cannot decode.
MalformedLine ==
    [malformed |-> TRUE, id |-> "", deleted |-> FALSE, atNs |-> 0,
     data |-> [type |-> "", payload |-> ""]]

\* A nil *Person handed to a write.
nilPayload == "<nil>"

\* Person.GetName: the payload of the model is the name; nil has the empty name.
GetName(payload) == IF payload = nilPayload THEN "" ELSE payload

\* A mutated Valid: every payload passes.
ValidAlways(payload) == TRUE

\* Person.Valid: the name must not be blank.
Valid(payload) == TrimSpace(GetName(payload)) # ""

\* The message options of the catalog: Person has validate_write and
\* allow_custom_id_insert, Note has omit_sync.
ValidateWrite(d) == d.TypeName = PersonTypeName
AllowCustomIDInsert(d) == d.TypeName = PersonTypeName

\* --------------------------------------------------------------- variables

VARIABLES
    rows,       \* live rows of the per-type tables: [table_name, id, at_ns, data]
    deleted,    \* _deleted: [table_name, id, at_ns]
    sync,       \* _sync: [object_id, table_name, remote, at_ns]
    unknown,    \* _unknown_types in rowid order: [type_name, id, at_ns, deleted, data_json]
    now,        \* the value the next NowNs() call returns
    last,       \* the operation that produced this state, with its arguments and result
    prevWrite,  \* the operation before it, when that was a WriteJSONL: its remote and output
    nops,       \* operations run so far
    columns,    \* projected columns of the live rows: [table_name, id, name]
    indexes,    \* indexes of the per-type tables: [table_name, name]
    schema,     \* _proprdb_schema: [table_name, schema_hash]
    callers,    \* SpecConcurrent: the callers that apply a record statement by statement
    log         \* SpecExport: the operations run so far, oldest first

vars == << rows, deleted, sync, unknown, now, last, prevWrite, nops,
           columns, indexes, schema, callers, log >>

\* The store as one value, for the operators that thread it through a call.
DB == [rows |-> rows, deleted |-> deleted, sync |-> sync, unknown |-> unknown]

\* ------------------------------------------------------- runtime: watermark

SyncRowsOf(s, objectID, tableName, remote) ==
    {r \in s : r.object_id = objectID /\ r.table_name = tableName /\ r.remote = remote}

\* A mutated SyncNeedsSend: the empty remote is never sent to.
SyncNeedsSendEmptyFalse(s, objectID, tableName, remote, atNs) ==
    IF remote = "" THEN FALSE
    ELSE LET found == SyncRowsOf(s, objectID, tableName, remote)
         IN  IF found = {} THEN TRUE
             ELSE (CHOOSE r \in found : TRUE).at_ns < atNs

\* A mutated SyncNeedsSend: non-strict comparison with the stored watermark.
SyncNeedsSendLeq(s, objectID, tableName, remote, atNs) ==
    IF remote = "" THEN TRUE
    ELSE LET found == SyncRowsOf(s, objectID, tableName, remote)
         IN  IF found = {} THEN TRUE
             ELSE (CHOOSE r \in found : TRUE).at_ns <= atNs

SyncNeedsSend(s, objectID, tableName, remote, atNs) ==
    IF remote = "" THEN TRUE
    ELSE LET found == SyncRowsOf(s, objectID, tableName, remote)
         IN  IF found = {} THEN TRUE
             ELSE (CHOOSE r \in found : TRUE).at_ns < atNs

\* A mutated SyncUpsert: the conflict branch overwrites instead of keeping the maximum.
SyncUpsertOverwrite(s, objectID, tableName, remote, atNs) ==
    IF remote = "" THEN s
    ELSE (s \ SyncRowsOf(s, objectID, tableName, remote))
            \cup {[object_id |-> objectID, table_name |-> tableName,
                   remote |-> remote, at_ns |-> atNs]}

\* A mutated SyncUpsert: the comparison of the conflict branch is inverted.
SyncUpsertMin(s, objectID, tableName, remote, atNs) ==
    IF remote = "" THEN s
    ELSE LET found == SyncRowsOf(s, objectID, tableName, remote)
         IN  IF found = {}
             THEN s \cup {[object_id |-> objectID, table_name |-> tableName,
                           remote |-> remote, at_ns |-> atNs]}
             ELSE (s \ found)
                     \cup {[r EXCEPT !.at_ns = IF atNs < r.at_ns THEN atNs ELSE r.at_ns]
                              : r \in found}

\* A mutated SyncUpsert: without the empty-remote guard.
SyncUpsertNoGuard(s, objectID, tableName, remote, atNs) ==
    LET found == SyncRowsOf(s, objectID, tableName, remote)
    IN  IF found = {}
        THEN s \cup {[object_id |-> objectID, table_name |-> tableName,
                      remote |-> remote, at_ns |-> atNs]}
        ELSE (s \ found)
                \cup {[r EXCEPT !.at_ns = IF atNs > r.at_ns THEN atNs ELSE r.at_ns] : r \in found}

\* A mutated SyncUpsert: a blank remote is treated like the empty one.
SyncUpsertTrimmed(s, objectID, tableName, remote, atNs) ==
    IF TrimSpace(remote) = "" THEN s
    ELSE SyncUpsertNoGuard(s, objectID, tableName, remote, atNs)

\* INSERT ... ON CONFLICT(object_id, table_name, remote) DO UPDATE SET at_ns = max.
SyncUpsert(s, objectID, tableName, remote, atNs) ==
    IF remote = "" THEN s
    ELSE LET found == SyncRowsOf(s, objectID, tableName, remote)
         IN  IF found = {}
             THEN s \cup {[object_id |-> objectID, table_name |-> tableName,
                           remote |-> remote, at_ns |-> atNs]}
             ELSE (s \ found)
                     \cup {[r EXCEPT !.at_ns = IF atNs > r.at_ns THEN atNs ELSE r.at_ns]
                              : r \in found}

\* ------------------------------------------------- runtime: tombstone store

LiveRowsOf(rs, tableName, objectID) ==
    {r \in rs : r.table_name = tableName /\ r.id = objectID}

TombstonesOf(del, tableName, objectID) ==
    {r \in del : r.table_name = tableName /\ r.id = objectID}

\* A mutated LocalMaxAtNs: the tombstone is not read.
LocalMaxAtNsRowOnly(rs, del, tableName, objectID) ==
    LET live == LiveRowsOf(rs, tableName, objectID)
    IN  IF live # {} /\ (CHOOSE r \in live : TRUE).at_ns > -1
        THEN (CHOOSE r \in live : TRUE).at_ns ELSE -1

LocalMaxAtNs(rs, del, tableName, objectID) ==
    LET live == LiveRowsOf(rs, tableName, objectID)
        tomb == TombstonesOf(del, tableName, objectID)
        afterRow == IF live # {} /\ (CHOOSE r \in live : TRUE).at_ns > -1
                    THEN (CHOOSE r \in live : TRUE).at_ns ELSE -1
    IN  IF tomb # {} /\ (CHOOSE r \in tomb : TRUE).at_ns > afterRow
        THEN (CHOOSE r \in tomb : TRUE).at_ns ELSE afterRow

\* --------------------------------------------------- runtime: quarantine

\* A mutated UnknownInsert: the deleted flag is not stored.
UnknownInsertNoFlag(u, typeName, record) ==
    IF TrimSpace(typeName) = "" THEN [err |-> TRUE, unknown |-> u]
    ELSE IF \E i \in DOMAIN u : /\ u[i].type_name = typeName
                                /\ u[i].id = record.id
                                /\ u[i].at_ns = record.atNs
         THEN [err |-> TRUE, unknown |-> u]
         ELSE [err |-> FALSE,
               unknown |-> Append(u, [type_name |-> typeName, id |-> record.id,
                                      at_ns |-> record.atNs, deleted |-> 0,
                                      data_json |-> record.data])]

\* INSERT INTO _unknown_types: fails on an empty type name and on a row with
\* the same primary key (type_name, id, at_ns).
UnknownInsert(u, typeName, record) ==
    IF TrimSpace(typeName) = "" THEN [err |-> TRUE, unknown |-> u]
    ELSE IF \E i \in DOMAIN u : /\ u[i].type_name = typeName
                                /\ u[i].id = record.id
                                /\ u[i].at_ns = record.atNs
         THEN [err |-> TRUE, unknown |-> u]
         ELSE [err |-> FALSE,
               unknown |-> Append(u, [type_name |-> typeName, id |-> record.id,
                                      at_ns |-> record.atNs,
                                      deleted |-> IF record.deleted THEN 1 ELSE 0,
                                      data_json |-> record.data])]

\* The rows of u at the positions in keep, in rowid order.
KeepRows(u, keep) ==
    LET F[i \in 0..Len(u)] ==
            IF i = 0 THEN << >>
            ELSE IF i \in keep THEN Append(F[i - 1], u[i]) ELSE F[i - 1]
    IN  F[Len(u)]

\* A mutated CompactUnknownLatest: nothing is deleted.
CompactUnknownNothing(u) == u

\* DELETE every row that is not the highest-rowid row among the rows holding
\* the maximum at_ns of their (type_name, id).
CompactUnknownLatest(u) ==
    LET sameKey(i, j) == u[i].type_name = u[j].type_name /\ u[i].id = u[j].id
        latest(i) == \A j \in DOMAIN u : sameKey(i, j) => u[j].at_ns <= u[i].at_ns
        kept == {i \in DOMAIN u :
                    /\ latest(i)
                    /\ \A j \in DOMAIN u :
                          (sameKey(i, j) /\ u[j].at_ns = u[i].at_ns) => j <= i}
    IN  KeepRows(u, kept)

\* ------------------------------------------- generated per-type table module

\* Upsert of a live row under the primary key (id).
RowUpsert(rs, tableName, objectID, atNs, data) ==
    (rs \ LiveRowsOf(rs, tableName, objectID))
        \cup {[table_name |-> tableName, id |-> objectID, at_ns |-> atNs, data |-> data]}

RowDelete(rs, tableName, objectID) == rs \ LiveRowsOf(rs, tableName, objectID)

\* Upsert of a tombstone under the primary key (table_name, id).
TombstoneUpsert(del, tableName, objectID, atNs) ==
    (del \ TombstonesOf(del, tableName, objectID))
        \cup {[table_name |-> tableName, id |-> objectID, at_ns |-> atNs]}

TombstoneDelete(del, tableName, objectID) == del \ TombstonesOf(del, tableName, objectID)

\* A mutated JSONL apply of a record that is not newer: nothing is written.
TableApplyNotNewerSilent(db, d, remote, record, localMax) == db

\* The JSONL apply of a record that is not newer than the local state
\* (localMax >= record.atNs): rows and tombstones are left alone. A live
\* record that is as new as the local state still records the watermark of
\* the remote (TestGeneratedJSONLEmptyRemoteNoSyncEntries: the target holds
\* the person at the record's atNs and has the _sync row of the remote after
\* the import); an older record and a deletion write nothing.
TableApplyNotNewer(db, d, remote, record, localMax) ==
    IF ~record.deleted /\ localMax = record.atNs
    THEN [db EXCEPT !.sync = SyncUpsert(@, record.id, d.TableName, remote, record.atNs)]
    ELSE db

\* A mutated JSONL apply: a live record leaves the tombstone in place.
TableApplyKeepsTombstone(db, d, remote, record) ==
    IF ~ValidateUUID(record.id) THEN db
    ELSE IF ~d.SyncEnabled THEN db
    ELSE IF LocalMaxAtNs(db.rows, db.deleted, d.TableName, record.id) >= record.atNs
         THEN TableApplyNotNewer(db, d, remote, record,
                                 LocalMaxAtNs(db.rows, db.deleted, d.TableName, record.id))
    ELSE IF record.deleted
         THEN [db EXCEPT
                 !.rows = RowDelete(@, d.TableName, record.id),
                 !.deleted = TombstoneUpsert(@, d.TableName, record.id, record.atNs),
                 !.sync = SyncUpsert(@, record.id, d.TableName, remote, record.atNs)]
         ELSE [db EXCEPT
                 !.rows = RowUpsert(@, d.TableName, record.id, record.atNs,
                                    record.data.payload),
                 !.sync = SyncUpsert(@, record.id, d.TableName, remote, record.atNs)]

\* A mutated JSONL apply: a live record goes through the write validation.
TableApplyValidated(db, d, remote, record) ==
    IF ~ValidateUUID(record.id) THEN db
    ELSE IF ~d.SyncEnabled THEN db
    ELSE IF LocalMaxAtNs(db.rows, db.deleted, d.TableName, record.id) >= record.atNs
         THEN TableApplyNotNewer(db, d, remote, record,
                                 LocalMaxAtNs(db.rows, db.deleted, d.TableName, record.id))
    ELSE IF record.deleted
         THEN [db EXCEPT
                 !.rows = RowDelete(@, d.TableName, record.id),
                 !.deleted = TombstoneUpsert(@, d.TableName, record.id, record.atNs),
                 !.sync = SyncUpsert(@, record.id, d.TableName, remote, record.atNs)]
         ELSE IF ValidateWrite(d) /\ ~Valid(record.data.payload) THEN db
         ELSE [db EXCEPT
                 !.rows = RowUpsert(@, d.TableName, record.id, record.atNs,
                                    record.data.payload),
                 !.deleted = TombstoneDelete(@, d.TableName, record.id),
                 !.sync = SyncUpsert(@, record.id, d.TableName, remote, record.atNs)]

\* The JSONL apply of one inbound record by the table module of descriptor d.
TableApply(db, d, remote, record) ==
    IF ~ValidateUUID(record.id) THEN db
    ELSE IF ~d.SyncEnabled THEN db
    ELSE LET localMax == LocalMaxAtNs(db.rows, db.deleted, d.TableName, record.id)
         IN  IF localMax >= record.atNs
             THEN TableApplyNotNewer(db, d, remote, record, localMax)
             ELSE IF record.deleted
                  THEN [db EXCEPT
                          !.rows = RowDelete(@, d.TableName, record.id),
                          !.deleted = TombstoneUpsert(@, d.TableName, record.id, record.atNs),
                          !.sync = SyncUpsert(@, record.id, d.TableName, remote, record.atNs)]
                  ELSE [db EXCEPT
                          !.rows = RowUpsert(@, d.TableName, record.id, record.atNs,
                                             record.data.payload),
                          !.deleted = TombstoneDelete(@, d.TableName, record.id),
                          !.sync = SyncUpsert(@, record.id, d.TableName, remote, record.atNs)]

\* Insert and InsertWithID once the id is known: validate, write the row at
\* NowNs(), remove any tombstone.
TableInsert(db, d, objectID, data, atNs) ==
    IF ValidateWrite(d) /\ ~Valid(data) THEN [err |-> TRUE, db |-> db]
    ELSE [err |-> FALSE,
          db |-> [db EXCEPT !.rows = RowUpsert(@, d.TableName, objectID, atNs, data),
                            !.deleted = TombstoneDelete(@, d.TableName, objectID)]]

\* InsertWithID: only for allow_custom_id_insert types; the id must be a UUID,
\* the payload must not be nil, and the INSERT fails on a live row with the
\* same primary key.
TableInsertWithID(db, d, objectID, data, atNs) ==
    IF ~AllowCustomIDInsert(d) THEN [err |-> TRUE, db |-> db]
    ELSE IF ~ValidateUUID(objectID) THEN [err |-> TRUE, db |-> db]
    ELSE IF data = nilPayload THEN [err |-> TRUE, db |-> db]
    ELSE IF LiveRowsOf(db.rows, d.TableName, objectID) # {} THEN [err |-> TRUE, db |-> db]
    ELSE TableInsert(db, d, objectID, data, atNs)

\* A mutated UpdateByID: the tombstone is left in place.
TableUpdateByIDKeepsTombstone(db, d, objectID, data, atNs) ==
    LET live == LiveRowsOf(db.rows, d.TableName, objectID)
        tomb == TombstonesOf(db.deleted, d.TableName, objectID)
    IN  IF ~ValidateUUID(objectID) THEN [err |-> TRUE, db |-> db]
        ELSE IF \E t \in tomb : t.at_ns > atNs THEN [err |-> TRUE, db |-> db]
        ELSE IF live = {} /\ tomb = {} THEN [err |-> TRUE, db |-> db]
        ELSE IF ValidateWrite(d) /\ ~Valid(data) THEN [err |-> TRUE, db |-> db]
        ELSE [err |-> FALSE,
              db |-> [db EXCEPT !.rows = RowUpsert(@, d.TableName, objectID, atNs, data)]]

\* A mutated UpdateByID: an update of an absent object inserts it.
TableUpdateByIDUpserts(db, d, objectID, data, atNs) ==
    IF ~ValidateUUID(objectID) THEN [err |-> TRUE, db |-> db]
    ELSE IF \E t \in TombstonesOf(db.deleted, d.TableName, objectID) : t.at_ns > atNs
         THEN [err |-> TRUE, db |-> db]
    ELSE IF ValidateWrite(d) /\ ~Valid(data) THEN [err |-> TRUE, db |-> db]
    ELSE [err |-> FALSE,
          db |-> [db EXCEPT !.rows = RowUpsert(@, d.TableName, objectID, atNs, data),
                            !.deleted = TombstoneDelete(@, d.TableName, objectID)]]

\* UpdateByID: strict update that resurrects a locally deleted object.
TableUpdateByID(db, d, objectID, data, atNs) ==
    LET live == LiveRowsOf(db.rows, d.TableName, objectID)
        tomb == TombstonesOf(db.deleted, d.TableName, objectID)
    IN  IF ~ValidateUUID(objectID) THEN [err |-> TRUE, db |-> db]
        ELSE IF \E t \in tomb : t.at_ns > atNs THEN [err |-> TRUE, db |-> db]
        ELSE IF live = {} /\ tomb = {} THEN [err |-> TRUE, db |-> db]
        ELSE IF ValidateWrite(d) /\ ~Valid(data) THEN [err |-> TRUE, db |-> db]
        ELSE [err |-> FALSE,
              db |-> [db EXCEPT !.rows = RowUpsert(@, d.TableName, objectID, atNs, data),
                                !.deleted = TombstoneDelete(@, d.TableName, objectID)]]

\* A mutated DeleteByID: the tombstone keeps the time of the deleted row.
TableDeleteByIDRowTime(db, d, objectID, atNs) ==
    LET live == LiveRowsOf(db.rows, d.TableName, objectID)
    IN  IF ~ValidateUUID(objectID) THEN [err |-> TRUE, db |-> db]
        ELSE IF live = {} THEN [err |-> TRUE, db |-> db]
        ELSE [err |-> FALSE,
              db |-> [db EXCEPT
                         !.rows = RowDelete(@, d.TableName, objectID),
                         !.deleted = TombstoneUpsert(@, d.TableName, objectID,
                                                     (CHOOSE r \in live : TRUE).at_ns)]]

\* DeleteByID: read the current row, delete it, upsert the tombstone at NowNs().
TableDeleteByID(db, d, objectID, atNs) ==
    IF ~ValidateUUID(objectID) THEN [err |-> TRUE, db |-> db]
    ELSE IF LiveRowsOf(db.rows, d.TableName, objectID) = {} THEN [err |-> TRUE, db |-> db]
    ELSE [err |-> FALSE,
          db |-> [db EXCEPT !.rows = RowDelete(@, d.TableName, objectID),
                            !.deleted = TombstoneUpsert(@, d.TableName, objectID, atNs)]]

\* The lines a table offers to an export: its live rows, then its tombstones.
ExportCandidates(db, d) ==
    LET liveIds == SelectSeq(IdOrder, LAMBDA id : LiveRowsOf(db.rows, d.TableName, id) # {})
        tombIds == SelectSeq(IdOrder,
                             LAMBDA id : TombstonesOf(db.deleted, d.TableName, id) # {})
        liveLine(id) == LET r == CHOOSE x \in LiveRowsOf(db.rows, d.TableName, id) : TRUE
                        IN  [table_name |-> d.TableName,
                             line |-> JSONLRecord(id, FALSE, r.at_ns,
                                                  MarshalAnyJSON(d.TypeName, r.data))]
        tombLine(id) == LET r == CHOOSE x \in TombstonesOf(db.deleted, d.TableName, id) : TRUE
                        IN  [table_name |-> d.TableName,
                             line |-> JSONLRecord(id, TRUE, r.at_ns,
                                                  MarshalTypeOnlyAnyJSON(d.TypeName))]
    IN  [i \in 1..Len(liveIds) |-> liveLine(liveIds[i])]
            \o [i \in 1..Len(tombIds) |-> tombLine(tombIds[i])]

\* Emit every candidate the remote still needs and move its watermark.
RECURSIVE EmitLines(_, _, _, _)
EmitLines(s, remote, candidates, out) ==
    IF candidates = << >> THEN [out |-> out, sync |-> s]
    ELSE LET c == Head(candidates)
         IN  IF SyncNeedsSend(s, c.line.id, c.table_name, remote, c.line.atNs)
             THEN EmitLines(SyncUpsert(s, c.line.id, c.table_name, remote, c.line.atNs),
                            remote, Tail(candidates), Append(out, c.line))
             ELSE EmitLines(s, remote, Tail(candidates), out)

\* ----------------------------------------------------- generated container

\* WriteJSONL: every sync-enabled table in catalog order.
RECURSIVE WriteTables(_, _, _, _, _)
WriteTables(db, remote, s, out, i) ==
    IF i > Len(TableDescriptors) THEN [out |-> out, sync |-> s]
    ELSE IF ~TableDescriptors[i].SyncEnabled THEN WriteTables(db, remote, s, out, i + 1)
    ELSE LET e == EmitLines(s, remote, ExportCandidates(db, TableDescriptors[i]), out)
         IN  WriteTables(db, remote, e.sync, e.out, i + 1)

CRUDWriteJSONL(db, remote) ==
    LET w == WriteTables(db, remote, db.sync, << >>, 1)
    IN  [out |-> w.out, db |-> [db EXCEPT !.sync = w.sync]]

\* A mutated visitor: a record without @type ends the import with an error.
VisitRecordNoTypeFails(db, remote, record) ==
    LET t == TypeNameFromAnyJSON(record.data)
    IN  IF t.err THEN [err |-> TRUE, db |-> db]
        ELSE IF t.typeName \in KnownTypeNames
             THEN [err |-> FALSE,
                   db |-> TableApply(db, DescriptorOfType(t.typeName), remote, record)]
             ELSE LET ins == UnknownInsert(db.unknown, t.typeName, record)
                  IN  [err |-> ins.err, db |-> [db EXCEPT !.unknown = ins.unknown]]

\* The visitor the container hands to ReadJSONL: dispatch by type name; a
\* record without @type is skipped; an unknown type goes to the quarantine.
VisitRecord(db, remote, record) ==
    LET t == TypeNameFromAnyJSON(record.data)
    IN  IF t.err THEN [err |-> FALSE, db |-> db]
        ELSE IF t.typeName \in KnownTypeNames
             THEN [err |-> FALSE,
                   db |-> TableApply(db, DescriptorOfType(t.typeName), remote, record)]
             ELSE LET ins == UnknownInsert(db.unknown, t.typeName, record)
                  IN  [err |-> ins.err, db |-> [db EXCEPT !.unknown = ins.unknown]]

\* A mutated ReadJSONL: a line that does not decode is passed over.
RECURSIVE ReadJSONLLoopSkipsMalformed(_, _, _, _)
ReadJSONLLoopSkipsMalformed(db, remote, lines, lineNumber) ==
    IF lines = << >> THEN [err |-> FALSE, line |-> 0, db |-> db]
    ELSE IF Head(lines).malformed
         THEN ReadJSONLLoopSkipsMalformed(db, remote, Tail(lines), lineNumber + 1)
    ELSE LET v == VisitRecord(db, remote, Head(lines))
         IN  IF v.err THEN [err |-> TRUE, line |-> lineNumber, db |-> v.db]
             ELSE ReadJSONLLoopSkipsMalformed(v.db, remote, Tail(lines), lineNumber + 1)

\* runtime ReadJSONL: decode line after line, stop at the first line that
\* does not decode or whose visit fails; lineNumber is the 1-based position.
RECURSIVE ReadJSONLLoop(_, _, _, _)
ReadJSONLLoop(db, remote, lines, lineNumber) ==
    IF lines = << >> THEN [err |-> FALSE, line |-> 0, db |-> db]
    ELSE IF Head(lines).malformed THEN [err |-> TRUE, line |-> lineNumber, db |-> db]
    ELSE LET v == VisitRecord(db, remote, Head(lines))
         IN  IF v.err THEN [err |-> TRUE, line |-> lineNumber, db |-> v.db]
             ELSE ReadJSONLLoop(v.db, remote, Tail(lines), lineNumber + 1)

\* ReadJSONL of the container of a binary that was generated before the
\* types in missing were added to the schema: their records are unknown to
\* it and go to the quarantine.
RECURSIVE ReadJSONLLoopWithout(_, _, _, _, _)
ReadJSONLLoopWithout(missing, db, remote, lines, lineNumber) ==
    IF lines = << >> THEN [err |-> FALSE, line |-> 0, db |-> db]
    ELSE IF Head(lines).malformed THEN [err |-> TRUE, line |-> lineNumber, db |-> db]
    ELSE LET record == Head(lines)
             t == TypeNameFromAnyJSON(record.data)
             ins == UnknownInsert(db.unknown, t.typeName, record)
             v == IF ~t.err /\ t.typeName \in missing
                  THEN [err |-> ins.err, db |-> [db EXCEPT !.unknown = ins.unknown]]
                  ELSE VisitRecord(db, remote, record)
         IN  IF v.err THEN [err |-> TRUE, line |-> lineNumber, db |-> v.db]
             ELSE ReadJSONLLoopWithout(missing, v.db, remote, Tail(lines), lineNumber + 1)

CRUDReadJSONLWithout(missing, db, remote, lines) ==
    LET r == ReadJSONLLoopWithout(missing, db, remote, lines, 1)
    IN  IF r.err THEN r
        ELSE [r EXCEPT !.db.unknown = CompactUnknownLatest(@)]

\* Container ReadJSONL: run the stream, then compact the quarantine.
CRUDReadJSONL(db, remote, lines) ==
    LET r == ReadJSONLLoop(db, remote, lines, 1)
    IN  IF r.err THEN r
        ELSE [r EXCEPT !.db.unknown = CompactUnknownLatest(@)]

\* ------------------------------------------------ runtime: managed indexes

personNameIndex == "idx_generatedtest_example_person__name"
personNameAgeIndex == "idx_generatedtest_example_person__name_age"
personStaleIndex == "idx_generatedtest_example_person__stale"
\* An index the user created under a name of their own.
personUserIndex == "person_by_name"
\* The index SQLite keeps for a TEXT PRIMARY KEY.
AutoIndex(tableName) ==
    IF tableName = PersonTableName THEN "sqlite_autoindex_generatedtest_example_person_1"
    ELSE "sqlite_autoindex_generatedtest_example_note_1"

\* The prefix of the generator-owned indexes of a table: idx_<table>__.
GeneratedIndexPrefix(tableName) ==
    IF tableName = PersonTableName THEN "idx_generatedtest_example_person__"
    ELSE "idx_generatedtest_example_note__"

\* strings.HasPrefix on the index names and prefixes of the model.
HasPrefix(name, prefix) ==
    /\ prefix = "idx_generatedtest_example_person__"
    /\ name \in {personNameIndex, personNameAgeIndex, personStaleIndex}

\* The indexes the generator wants on the table of a descriptor.
DesiredIndexNames(d) ==
    IF d.TableName = PersonTableName THEN {personNameIndex, personNameAgeIndex} ELSE {}

\* A mutated EnsureManagedIndexes: the prefix is not looked at.
EnsureManagedIndexesAnyName(ix, tableName, generatedIndexPrefix, createIndexSQL, desiredIndexNames) ==
    LET created == ix \cup {[table_name |-> tableName, name |-> n] :
                               n \in createIndexSQL \ {x.name : x \in ix}}
        listed == {x.name : x \in {y \in created : y.table_name = tableName}}
        staleGeneratedIndexes == {n \in listed : n \notin desiredIndexNames}
    IN  {x \in created : x.name \notin staleGeneratedIndexes}

\* EnsureManagedIndexes: run every CREATE INDEX IF NOT EXISTS (createIndexSQL
\* is the set of names the statements create on the table), list the indexes
\* of the table, and drop those that carry the prefix and are not desired.
EnsureManagedIndexes(ix, tableName, generatedIndexPrefix, createIndexSQL, desiredIndexNames) ==
    LET created == ix \cup {[table_name |-> tableName, name |-> n] :
                               n \in createIndexSQL \ {x.name : x \in ix}}
        listed == {x.name : x \in {y \in created : y.table_name = tableName}}
        staleGeneratedIndexes ==
            {n \in listed : HasPrefix(n, generatedIndexPrefix) /\ n \notin desiredIndexNames}
    IN  {x \in created : x.name \notin staleGeneratedIndexes}

\* ------------------------------------------- runtime: replay of the quarantine

\* The order SQLite gives the identifiers of the model as TEXT.
IdRank(id) ==
    CASE id = "" -> 0
      [] id = unknownID -> 1
      [] id = customID -> 2
      [] id = drainPersonID -> 3
      [] OTHER -> 4

\* A mutated ORDER BY: the rows come in rowid order.
OrderedRowsByRowid(u, S) == KeepRows(u, S)

\* The rows of u at the positions in S, ORDER BY at_ns ASC, id ASC, rowid ASC.
RECURSIVE OrderedRows(_, _)
OrderedRows(u, S) ==
    IF S = {} THEN << >>
    ELSE LET before(i, j) ==
                 \/ u[i].at_ns < u[j].at_ns
                 \/ u[i].at_ns = u[j].at_ns /\ IdRank(u[i].id) < IdRank(u[j].id)
                 \/ u[i].at_ns = u[j].at_ns /\ IdRank(u[i].id) = IdRank(u[j].id) /\ i < j
             m == CHOOSE i \in S : \A j \in S \ {i} : before(i, j)
         IN  << u[m] >> \o OrderedRows(u, S \ {m})

\* The loop of ReplayUnknownByType over the rows it selected: apply the
\* record (the apply of the table module of d, called with remote), then
\* delete every quarantine row of (type_name, id).
RECURSIVE ReplayRows(_, _, _, _)
ReplayRows(db, d, remote, replayRows) ==
    IF replayRows = << >> THEN [err |-> FALSE, db |-> db]
    ELSE LET row == Head(replayRows)
             record == JSONLRecord(row.id, row.deleted # 0, row.at_ns, row.data_json)
             applied == TableApply(db, d, remote, record)
             u == applied.unknown
             kept == {i \in DOMAIN u : ~(u[i].type_name = d.TypeName /\ u[i].id = row.id)}
         IN  ReplayRows([applied EXCEPT !.unknown = KeepRows(u, kept)], d, remote,
                        Tail(replayRows))

\* A mutated ReplayUnknownByType: the rows are applied and left in the quarantine.
ReplayUnknownByTypeKeepsRows(db, d, remote) ==
    IF TrimSpace(d.TypeName) = "" THEN [err |-> TRUE, db |-> db]
    ELSE LET u == CompactUnknownLatest(db.unknown)
             replayed == ReplayRows([db EXCEPT !.unknown = u], d, remote,
                                    OrderedRows(u, {i \in DOMAIN u : u[i].type_name = d.TypeName}))
         IN  [err |-> replayed.err, db |-> [replayed.db EXCEPT !.unknown = u]]

\* ReplayUnknownByType: compact, select the rows of the type in order, replay them.
ReplayUnknownByType(db, d, remote) ==
    IF TrimSpace(d.TypeName) = "" THEN [err |-> TRUE, db |-> db]
    ELSE LET u == CompactUnknownLatest(db.unknown)
         IN  ReplayRows([db EXCEPT !.unknown = u], d, remote,
                        OrderedRows(u, {i \in DOMAIN u : u[i].type_name = d.TypeName}))

\* A mutated per-key delete: the rows of the id are deleted in every type.
DeleteUnknownRowsOfId(u, typeName, id) ==
    KeepRows(u, {i \in DOMAIN u : u[i].id # id})

\* DELETE FROM _unknown_types WHERE type_name = ? AND id = ?.
DeleteUnknownRows(u, typeName, id) ==
    KeepRows(u, {i \in DOMAIN u : ~(u[i].type_name = typeName /\ u[i].id = id)})

\* A mutated replay loop: a failing apply is passed over and the delete of
\* the key follows.
ReplayAfterApplyGoesOn(applyFailed) == "delete"

\* The position of the replay loop after apply(record): an error of apply
\* is returned at once, otherwise the DELETE of the key follows.
ReplayAfterApply(applyFailed) == IF applyFailed THEN "failed" ELSE "delete"

\* ------------------------------------------------- generated table Init

\* The hash the generator computed for the projection plan of a table.
SchemaHash(d) == IF d.TableName = PersonTableName THEN "hash-person" ELSE "hash-note"
staleHash == "stale"

\* The projected columns of a live row as the write of the row sets them.
ProjectionOf(r) == [table_name |-> r.table_name, id |-> r.id, name |-> GetName(r.data)]

\* The projected columns after a statement took the live rows from rs to
\* rsAfter: a row that was written gets the projection of its data, a row
\* that was left alone keeps its columns, a deleted row loses them.
ColumnsAfterWrite(rs, rsAfter, cols) ==
    {c \in cols : \E r \in rsAfter \cap rs : r.table_name = c.table_name /\ r.id = c.id}
        \cup {ProjectionOf(r) : r \in rsAfter \ rs}

\* A mutated Init: the hash is stored but the rows are not reprojected.
TableInitNoReproject(db, cols, ix, sch, d) ==
    LET stored == {r \in sch : r.table_name = d.TableName}
        replay == ReplayUnknownByType(db, d, "")
    IN  [err |-> replay.err,
         db |-> replay.db,
         columns |-> ColumnsAfterWrite(db.rows, replay.db.rows, cols),
         indexes |-> EnsureManagedIndexes(ix, d.TableName, GeneratedIndexPrefix(d.TableName),
                                          DesiredIndexNames(d), DesiredIndexNames(d)),
         schema |-> (sch \ stored)
                       \cup {[table_name |-> d.TableName, schema_hash |-> SchemaHash(d)]}]

\* Init of the table module of d: when the stored schema hash differs from
\* the generated one, rewrite the projected columns of every live row from
\* its data and store the generated hash; apply the managed-index
\* discipline; drain the quarantine of the type through the module's apply.
TableInit(db, cols, ix, sch, d) ==
    LET stored == {r \in sch : r.table_name = d.TableName}
        drift == \A r \in stored : r.schema_hash # SchemaHash(d)
        reprojected == {c \in cols : c.table_name # d.TableName}
                          \cup {ProjectionOf(r) : r \in {x \in db.rows :
                                                           x.table_name = d.TableName}}
        replay == ReplayUnknownByType(db, d, "")
    IN  [err |-> replay.err,
         db |-> replay.db,
         columns |-> ColumnsAfterWrite(db.rows, replay.db.rows,
                                       IF drift THEN reprojected ELSE cols),
         indexes |-> EnsureManagedIndexes(ix, d.TableName, GeneratedIndexPrefix(d.TableName),
                                          DesiredIndexNames(d), DesiredIndexNames(d)),
         schema |-> IF drift
                    THEN (sch \ stored)
                            \cup {[table_name |-> d.TableName, schema_hash |-> SchemaHash(d)]}
                    ELSE sch]

\* The indexes of the tables after the container's Init on a new database.
IndexesAfterInit ==
    UNION {{[table_name |-> d.TableName, name |-> n] :
               n \in DesiredIndexNames(d) \cup {AutoIndex(d.TableName)}} :
           d \in GeneratedTables}

\* ------------------------------------------------------------------ history

PersonDescriptor == TableDescriptors[1]
NoteDescriptor == TableDescriptors[2]
Descriptors == {PersonDescriptor, NoteDescriptor}

\* What a table Init found when it was called: the names of the indexes of
\* its table, the stored schema hash, the quarantine and the projected columns.
NothingSeen == [indexes |-> {}, hash |-> "", unknown |-> << >>, columns |-> {}]

\* The record kept of the last operation.
Call(op, remote, id, atNs, data, lines) ==
    [op |-> op, remote |-> remote, id |-> id, atNs |-> atNs, data |-> data, lines |-> lines,
     out |-> << >>, err |-> FALSE, line |-> 0, ret |-> FALSE, repeat |-> FALSE,
     table |-> PersonTableName, seen |-> NothingSeen]

NoCall == Call("Init", "", "", 0, "", << >>)
NoPrevWrite == [valid |-> FALSE, remote |-> "", out |-> << >>]

PrevWriteOf(l) ==
    IF l.op = "WriteJSONL" THEN [valid |-> TRUE, remote |-> l.remote, out |-> l.out]
    ELSE NoPrevWrite

Store(db) ==
    /\ rows' = db.rows
    /\ deleted' = db.deleted
    /\ sync' = db.sync
    /\ unknown' = db.unknown
    /\ columns' = ColumnsAfterWrite(rows, db.rows, columns)

\* The step counts as an operation and leaves indexes and schema state alone.
Counted == nops' = nops + 1 /\ UNCHANGED << indexes, schema, callers, log >>
Uncounted == UNCHANGED << nops, indexes, schema, callers, log >>

\* The step counts as an operation and its call is appended to the log.
Logged ==
    /\ nops' = nops + 1
    /\ log' = Append(log, last')
    /\ UNCHANGED << indexes, schema, callers >>

Record(l) ==
    /\ last' = l
    /\ prevWrite' = PrevWriteOf(last)

\* UUIDv7(): an identifier no row or tombstone of the table uses yet.
FreshIdsOf(tableName) ==
    {id \in Ids : /\ LiveRowsOf(rows, tableName, id) = {}
                  /\ TombstonesOf(deleted, tableName, id) = {}}

FreshIds == FreshIdsOf(PersonTableName)

Init ==
    /\ rows = {}
    /\ deleted = {}
    /\ sync = {}
    /\ unknown = << >>
    /\ now = 1
    /\ last = NoCall
    /\ prevWrite = NoPrevWrite
    /\ nops = 0
    /\ columns = {}
    /\ indexes = IndexesAfterInit
    /\ schema = {[table_name |-> d.TableName, schema_hash |-> SchemaHash(d)] : d \in Descriptors}
    /\ callers = << >>
    /\ log = << >>

\* ------------------------------------------------------------------ actions

\* Insert into the table of one of the descriptors.
DoInsertInto(descriptors, payloads) ==
    \E d \in descriptors, data \in payloads :
        \E id \in FreshIdsOf(d.TableName) :
            LET r == TableInsert(DB, d, id, data, now)
            IN  /\ Store(r.db)
                /\ now' = IF r.err THEN now ELSE now + 1
                /\ Record([Call("Insert", "", id, now, data, << >>) EXCEPT
                              !.err = r.err, !.table = d.TableName])

DoInsertWithID(descriptors, ids, payloads) ==
    \E d \in descriptors, id \in ids, data \in payloads :
        LET r == TableInsertWithID(DB, d, id, data, now)
        IN  /\ Store(r.db)
            /\ now' = IF r.err THEN now ELSE now + 1
            /\ Record([Call("InsertWithID", "", id, now, data, << >>) EXCEPT
                          !.err = r.err, !.table = d.TableName])

\* UpdateByID, and UpdateRow with a row struct of the same id and payload.
DoUpdateByIDIn(descriptors, ids, payloads) ==
    \E d \in descriptors, id \in ids, data \in payloads :
        LET r == TableUpdateByID(DB, d, id, data, now)
        IN  /\ Store(r.db)
            /\ now' = IF r.err THEN now ELSE now + 1
            /\ Record([Call("UpdateByID", "", id, now, data, << >>) EXCEPT
                          !.err = r.err, !.table = d.TableName])

\* DeleteByID, and DeleteRow with a row struct of the same id.
DoDeleteByIDIn(descriptors, ids) ==
    \E d \in descriptors, id \in ids :
        LET r == TableDeleteByID(DB, d, id, now)
        IN  /\ Store(r.db)
            /\ now' = IF r.err THEN now ELSE now + 1
            /\ Record([Call("DeleteByID", "", id, now, "", << >>) EXCEPT
                          !.err = r.err, !.table = d.TableName])

DoInsert(payloads) == DoInsertInto({PersonDescriptor}, payloads)
DoUpdateByID(ids, payloads) == DoUpdateByIDIn({PersonDescriptor}, ids, payloads)
DoDeleteByID(ids) == DoDeleteByIDIn({PersonDescriptor}, ids)

DoWriteJSONL(remotes) ==
    \E remote \in remotes :
        LET w == CRUDWriteJSONL(DB, remote)
        IN  /\ Store(w.db)
            /\ now' = now
            /\ Record([Call("WriteJSONL", remote, "", 0, "", << >>) EXCEPT !.out = w.out])

DoReadJSONL(remotes, streams) ==
    \E remote \in remotes, lines \in streams :
        LET r == CRUDReadJSONL(DB, remote, lines)
        IN  /\ Store(r.db)
            /\ now' = now
            /\ Record([Call("ReadJSONL", remote, "", 0, "", lines) EXCEPT
                          !.err = r.err, !.line = r.line])

\* The stream of the last ReadJSONL call, imported once more with the same remote.
DoReadJSONLAgain ==
    /\ last.op = "ReadJSONL"
    /\ ~last.repeat
    /\ LET r == CRUDReadJSONL(DB, last.remote, last.lines)
       IN  /\ Store(r.db)
           /\ now' = now
           /\ Record([Call("ReadJSONL", last.remote, "", 0, "", last.lines) EXCEPT
                         !.err = r.err, !.line = r.line, !.repeat = TRUE])

\* A direct call of the runtime's SyncUpsert.
DoSyncUpsert(ids, remotes, times) ==
    \E id \in ids, remote \in remotes, atNs \in times :
        /\ sync' = SyncUpsert(sync, id, PersonTableName, remote, atNs)
        /\ UNCHANGED << rows, deleted, unknown, now, columns >>
        /\ Record(Call("SyncUpsert", remote, id, atNs, "", << >>))

\* A direct call of the runtime's SyncNeedsSend.
DoSyncNeedsSend(ids, remotes, times) ==
    \E id \in ids, remote \in remotes, atNs \in times :
        /\ UNCHANGED << rows, deleted, sync, unknown, now, columns >>
        /\ Record([Call("SyncNeedsSend", remote, id, atNs, "", << >>) EXCEPT
                      !.ret = SyncNeedsSend(sync, id, PersonTableName, remote, atNs)])

\* Init of the table module of one of the descriptors.
DoTableInit(descriptors) ==
    \E d \in descriptors :
        LET r == TableInit(DB, columns, indexes, schema, d)
            stored == {x.schema_hash : x \in {y \in schema : y.table_name = d.TableName}}
        IN  /\ rows' = r.db.rows
            /\ deleted' = r.db.deleted
            /\ sync' = r.db.sync
            /\ unknown' = r.db.unknown
            /\ columns' = r.columns
            /\ indexes' = r.indexes
            /\ schema' = r.schema
            /\ now' = now
            /\ Record([Call("TableInit", "", "", 0, "", << >>) EXCEPT
                          !.err = r.err, !.table = d.TableName,
                          !.seen = [indexes |-> {x.name : x \in {y \in indexes :
                                                                    y.table_name = d.TableName}},
                                    hash |-> IF stored = {} THEN ""
                                             ELSE CHOOSE h \in stored : TRUE,
                                    unknown |-> unknown,
                                    columns |-> columns]])

\* A statement run on the database behind the back of the generated code:
\* INSERT INTO _unknown_types.
DoExecInsertUnknown(records) ==
    \E record \in records :
        LET ins == UnknownInsert(unknown, TypeNameFromURL(record.data.type), record)
        IN  /\ ~ins.err
            /\ unknown' = ins.unknown
            /\ UNCHANGED << rows, deleted, sync, now, columns, indexes, schema >>
            /\ Record(Call("ExecInsertUnknown", "", record.id, record.atNs,
                           record.data.payload, << record >>))

\* UPDATE <table> SET <projected column> = ... WHERE id = ?.
DoExecDegradeColumn(value) ==
    \E c \in columns :
        /\ c.name # value
        /\ columns' = (columns \ {c}) \cup {[c EXCEPT !.name = value]}
        /\ UNCHANGED << rows, deleted, sync, unknown, now, indexes, schema >>
        /\ Record([Call("ExecDegradeColumn", "", c.id, 0, value, << >>) EXCEPT
                      !.table = c.table_name])

\* UPDATE _proprdb_schema SET schema_hash = ? WHERE table_name = ?.
DoExecSetSchemaHash(tableNames, hash) ==
    \E tableName \in tableNames :
        /\ schema' = {IF r.table_name = tableName THEN [r EXCEPT !.schema_hash = hash] ELSE r :
                         r \in schema}
        /\ UNCHANGED << rows, deleted, sync, unknown, now, columns, indexes >>
        /\ Record([Call("ExecSetSchemaHash", "", "", 0, hash, << >>) EXCEPT
                      !.table = tableName])

\* CREATE INDEX IF NOT EXISTS <name> ON <table>.
DoExecCreateIndex(tableName, names) ==
    \E n \in names :
        /\ indexes' = IF \E x \in indexes : x.name = n THEN indexes
                      ELSE indexes \cup {[table_name |-> tableName, name |-> n]}
        /\ UNCHANGED << rows, deleted, sync, unknown, now, columns, schema >>
        /\ Record([Call("ExecCreateIndex", "", n, 0, "", << >>) EXCEPT !.table = tableName])

\* DROP INDEX IF EXISTS <name>.
DoExecDropIndex(tableName, names) ==
    \E n \in names :
        /\ indexes' = {x \in indexes : x.name # n}
        /\ UNCHANGED << rows, deleted, sync, unknown, now, columns, schema >>
        /\ Record([Call("ExecDropIndex", "", n, 0, "", << >>) EXCEPT !.table = tableName])

\* A direct call of UnknownInsert.
DoUnknownInsert(typeNames, records) ==
    \E typeName \in typeNames, record \in records :
        LET ins == UnknownInsert(unknown, typeName, record)
        IN  /\ unknown' = ins.unknown
            /\ UNCHANGED << rows, deleted, sync, now, columns >>
            /\ Record([Call("UnknownInsert", "", record.id, record.atNs,
                            record.data.payload, << record >>) EXCEPT
                          !.err = ins.err, !.table = typeName,
                          !.seen = [NothingSeen EXCEPT !.unknown = unknown]])

\* A direct call of CompactUnknownLatest.
DoCompactUnknownLatest ==
    /\ unknown' = CompactUnknownLatest(unknown)
    /\ UNCHANGED << rows, deleted, sync, now, columns >>
    /\ Record([Call("CompactUnknownLatest", "", "", 0, "", << >>) EXCEPT
                  !.seen = [NothingSeen EXCEPT !.unknown = unknown]])

\* ReadJSONL by a binary that does not know the types in missing.
DoReadJSONLWithout(missing, remotes, streams) ==
    \E remote \in remotes, lines \in streams :
        LET r == CRUDReadJSONLWithout(missing, DB, remote, lines)
        IN  /\ Store(r.db)
            /\ now' = now
            /\ Record([Call("ReadJSONLWithout", remote, "", 0, "", lines) EXCEPT
                          !.err = r.err, !.line = r.line])

\* ----------------------------------------------------------- specification

PersonRecord(id, atNs, name) == JSONLRecord(id, FALSE, atNs, MarshalAnyJSON(PersonTypeName, name))
PersonDeletion(id, atNs) == JSONLRecord(id, TRUE, atNs, MarshalTypeOnlyAnyJSON(PersonTypeName))
UnknownRecord(id, atNs) == JSONLRecord(id, FALSE, atNs, MarshalAnyJSON(unknownTypeName, "x"))

\* Inbound one-record streams of Spec.
SpecStreams ==
    {<< PersonRecord(customID, t, "Bob") >> : t \in 0..MaxAtNs}
        \cup {<< PersonDeletion(customID, t) >> : t \in 0..MaxAtNs}

Insert == nops < MaxOps /\ DoInsert({"Ada"}) /\ Counted
UpdateByID == nops < MaxOps /\ DoUpdateByID(Ids, {"Bob"}) /\ Counted
DeleteByID == nops < MaxOps /\ DoDeleteByID(Ids) /\ Counted
WriteJSONL == nops < MaxOps /\ DoWriteJSONL(Remotes) /\ Counted
ReadJSONL == nops < MaxOps /\ DoReadJSONL({testRemoteEmpty, testRemoteA}, SpecStreams) /\ Counted
SyncUpsertCall == nops < MaxOps /\ DoSyncUpsert({customID}, {testRemoteEmpty, testRemoteA}, {MaxAtNs}) /\ Counted

Next ==
    \/ Insert
    \/ UpdateByID
    \/ DeleteByID
    \/ WriteJSONL
    \/ ReadJSONL
    \/ SyncUpsertCall

Spec == Init /\ [][Next]_vars

\* ------------------------------------- specification of the watermark calls

\* Direct calls of SyncUpsert and SyncNeedsSend for one object, every remote
\* and every time in -1..MaxAtNs.
CallSyncUpsert == DoSyncUpsert({customID}, Remotes, -1..MaxAtNs) /\ Uncounted
CallSyncNeedsSend == DoSyncNeedsSend({customID}, Remotes, -1..MaxAtNs) /\ Uncounted

NextSync ==
    \/ CallSyncUpsert
    \/ CallSyncNeedsSend

SpecSync == Init /\ [][NextSync]_vars

\* ---------------------------------------------- specification of the import

\* The records an inbound stream of SpecImport is made of.
ImportRecords ==
    {PersonRecord(customID, t, "Ada") : t \in -1..MaxAtNs}
        \cup {PersonDeletion(customID, t) : t \in -1..MaxAtNs}
        \cup {PersonRecord(customID, MaxAtNs, "Bob"), PersonRecord(drainPersonID, 1, "Ada")}
        \cup {UnknownRecord(unknownID, t) : t \in 1..2}

ImportStreams == UNION {[1..n -> ImportRecords] : n \in 1..MaxBatch}

\* Local operations build the store, one stream is imported,
\* and the same stream may be imported once more.
PrepareInsert ==
    last.op # "ReadJSONL" /\ nops < MaxPre /\ DoInsert({"Ada"}) /\ Counted
PrepareDeleteByID ==
    last.op # "ReadJSONL" /\ nops < MaxPre /\ DoDeleteByID(Ids) /\ Counted
PrepareWriteJSONL ==
    last.op # "ReadJSONL" /\ nops < MaxPre /\ DoWriteJSONL({testRemoteA}) /\ Counted
ImportJSONL ==
    /\ last.op # "ReadJSONL"
    /\ DoReadJSONL({testRemoteEmpty, testRemoteA}, ImportStreams)
    /\ Uncounted
ImportJSONLAgain == DoReadJSONLAgain /\ Uncounted

NextImport ==
    \/ PrepareInsert
    \/ PrepareDeleteByID
    \/ PrepareWriteJSONL
    \/ ImportJSONL
    \/ ImportJSONLAgain

SpecImport == Init /\ [][NextImport]_vars

\* ------------------------------------ specification of the table modules

NoteRecord(id, atNs) == JSONLRecord(id, FALSE, atNs, MarshalAnyJSON(NoteTypeName, "ignored"))

\* Inbound one-record streams of SpecCRUD: Person records and deletions at
\* every time up to MaxAtNs + 1, a Person whose name is blank, and Notes.
CrudStreams ==
    {<< PersonRecord(customID, t, "Bob") >> : t \in 0..MaxAtNs + 1}
        \cup {<< PersonDeletion(customID, t) >> : t \in 0..MaxAtNs + 1}
        \cup {<< PersonRecord(customID, t, "") >> : t \in {MaxAtNs, MaxAtNs + 1}}
        \cup {<< NoteRecord(customID, t) >> : t \in {0, MaxAtNs + 1}}

CrudInsert ==
    nops < MaxCrudOps /\ DoInsertInto(Descriptors, {"Ada", ""}) /\ Counted
CrudInsertWithID ==
    /\ nops < MaxCrudOps
    /\ DoInsertWithID({PersonDescriptor}, {customID, notAUUID, ""}, {"Ada", "", nilPayload})
    /\ Counted
CrudUpdateByID ==
    /\ nops < MaxCrudOps
    /\ DoUpdateByIDIn(Descriptors, Ids \cup {notAUUID}, {"Bob", ""})
    /\ Counted
CrudDeleteByID ==
    nops < MaxCrudOps /\ DoDeleteByIDIn(Descriptors, Ids) /\ Counted
CrudWriteJSONL ==
    nops < MaxCrudOps /\ DoWriteJSONL({testRemoteEmpty, testRemoteA}) /\ Counted
CrudReadJSONL ==
    nops < MaxCrudOps /\ DoReadJSONL({testRemoteA}, CrudStreams) /\ Counted

NextCRUD ==
    \/ CrudInsert
    \/ CrudInsertWithID
    \/ CrudUpdateByID
    \/ CrudDeleteByID
    \/ CrudWriteJSONL
    \/ CrudReadJSONL

SpecCRUD == Init /\ [][NextCRUD]_vars

\* ------------------------------------------- specification of the streams

\* A record whose data has no @type, or an empty one.
NoTypeRecord(id, atNs) == JSONLRecord(id, FALSE, atNs, [type |-> "", payload |-> "Ada"])

\* The records an inbound stream of SpecStream is made of: a live Person and
\* a deletion of it, a Person whose id is no UUID, a line that does not
\* decode, a record without @type, and versions of an object of a type the
\* binary does not know.
StreamRecords ==
    {PersonRecord(customID, 1, "Bob"), PersonDeletion(customID, MaxAtNs),
     PersonRecord(notAUUID, MaxAtNs, "Ada"), MalformedLine,
     NoTypeRecord(customID, MaxAtNs + 1)}
        \cup {UnknownRecord(unknownID, t) : t \in 1..MaxAtNs}

Streams == UNION {[1..n -> StreamRecords] : n \in 1..MaxBatch}

\* An optional local insert, one import, and one more import of any stream.
StreamInsert == last.op = "Init" /\ DoInsert({"Ada"}) /\ Uncounted
StreamFirst == last.op # "ReadJSONL" /\ DoReadJSONL({testRemoteA}, Streams) /\ Uncounted
StreamSecond ==
    /\ last.op = "ReadJSONL"
    /\ nops = 0
    /\ DoReadJSONL({testRemoteA}, Streams)
    /\ Counted

NextStream ==
    \/ StreamInsert
    \/ StreamFirst
    \/ StreamSecond

SpecStream == Init /\ [][NextStream]_vars

\* -------------------------------------------- specification of table Init

degradedName == "?"

\* The rows put into the quarantine: versions of a Person, a deletion of it,
\* a Person whose id is no UUID, and an object of the unknown type.
QuarantineSeeds ==
    {PersonRecord(drainPersonID, 1, "old"), PersonRecord(drainPersonID, MaxAtNs, "new"),
     PersonDeletion(drainPersonID, MaxAtNs + 1), PersonRecord(notAUUID, 1, "old"),
     UnknownRecord(unknownID, 1)}

\* Local writes, statements run on the database directly, and Person.Init.
InitInsert == nops < MaxInitOps /\ DoInsert({"Ada"}) /\ Counted
InitDeleteByID == nops < MaxInitOps /\ DoDeleteByID(Ids) /\ ~last'.err /\ Counted
InitExecInsertUnknown ==
    /\ nops < MaxInitOps
    /\ DoExecInsertUnknown(QuarantineSeeds)
    /\ nops' = nops + 1
    /\ UNCHANGED << callers, log >>
InitExecDegradeColumn ==
    /\ nops < MaxInitOps
    /\ DoExecDegradeColumn(degradedName)
    /\ nops' = nops + 1
    /\ UNCHANGED << callers, log >>
InitExecSetSchemaHash ==
    /\ nops < MaxInitOps
    /\ DoExecSetSchemaHash({PersonTableName}, staleHash)
    /\ nops' = nops + 1
    /\ UNCHANGED << callers, log >>
InitExecCreateIndex ==
    /\ nops < MaxInitOps
    /\ DoExecCreateIndex(PersonTableName, {personStaleIndex, personUserIndex})
    /\ nops' = nops + 1
    /\ UNCHANGED << callers, log >>
InitExecDropIndex ==
    /\ nops < MaxInitOps
    /\ DoExecDropIndex(PersonTableName, {personNameIndex})
    /\ nops' = nops + 1
    /\ UNCHANGED << callers, log >>
InitTableInit ==
    /\ nops < MaxInitOps
    /\ DoTableInit({PersonDescriptor})
    /\ nops' = nops + 1
    /\ UNCHANGED << callers, log >>

NextInit ==
    \/ InitInsert
    \/ InitDeleteByID
    \/ InitExecInsertUnknown
    \/ InitExecDegradeColumn
    \/ InitExecSetSchemaHash
    \/ InitExecCreateIndex
    \/ InitExecDropIndex
    \/ InitTableInit

SpecInit == Init /\ [][NextInit]_vars

\* ------------------------------------ specification of concurrent applies

\* The records two callers apply to the same Person.
ConcurrentRecords ==
    {PersonRecord(customID, t, n) : t \in 0..MaxAtNs, n \in {"Ada", "Bob"}}
        \cup {PersonDeletion(customID, t) : t \in 0..MaxAtNs}

\* A caller about to apply record: inTx tells whether the apply runs in a
\* transaction of its own or statement by statement on an auto-commit
\* connection; maxAtNs is the local variable of LocalMaxAtNs.
Caller(record, inTx) == [record |-> record, pc |-> "readRow", maxAtNs |-> -1, inTx |-> inTx]

StatementFrame == UNCHANGED << now, nops, unknown, indexes, schema, log >>

\* Two callers get their records.
ConcurrentBegin ==
    /\ callers = << >>
    /\ \E a, b \in ConcurrentRecords, inTx \in BOOLEAN :
          callers' = << Caller(a, inTx), Caller(b, inTx) >>
    /\ UNCHANGED << rows, deleted, sync, columns >>
    /\ StatementFrame
    /\ Record(Call("Begin", testRemoteA, customID, 0, "", << >>))

CallOf(op, c) ==
    Call(op, testRemoteA, c.record.id, c.record.atNs, c.record.data.payload, << c.record >>)

\* LocalMaxAtNs, first query: SELECT at_ns FROM <table> WHERE id = ?.
CallerReadRow ==
    \E i \in DOMAIN callers :
        LET c == callers[i]
        IN  /\ c.pc = "readRow" /\ ~c.inTx
            /\ callers' = [callers EXCEPT
                              ![i].maxAtNs = LocalMaxAtNs(rows, {}, PersonTableName, c.record.id),
                              ![i].pc = "readTombstone"]
            /\ UNCHANGED << rows, deleted, sync, columns >>
            /\ StatementFrame
            /\ Record(CallOf("readRow", c))

\* LocalMaxAtNs, second query: SELECT at_ns FROM _deleted WHERE table_name = ?
\* AND id = ?; then the comparison of the apply with the record's atNs: a
\* newer record goes to the write statements, a live record as new as the
\* local state to the _sync statement only, any other record writes nothing.
CallerReadTombstone ==
    \E i \in DOMAIN callers :
        LET c == callers[i]
            tombstoneAtNs == LocalMaxAtNs({}, deleted, PersonTableName, c.record.id)
            maxAtNs == IF tombstoneAtNs > c.maxAtNs THEN tombstoneAtNs ELSE c.maxAtNs
        IN  /\ c.pc = "readTombstone"
            /\ callers' = [callers EXCEPT
                              ![i].maxAtNs = maxAtNs,
                              ![i].pc = IF maxAtNs < c.record.atNs THEN "writeRow"
                                        ELSE IF ~c.record.deleted /\ maxAtNs = c.record.atNs
                                             THEN "syncUpsert"
                                             ELSE "done"]
            /\ UNCHANGED << rows, deleted, sync, columns >>
            /\ StatementFrame
            /\ Record(CallOf("readTombstone", c))

\* The statement on the per-type table: delete the row or upsert it.
CallerWriteRow ==
    \E i \in DOMAIN callers :
        LET c == callers[i]
            rs == IF c.record.deleted THEN RowDelete(rows, PersonTableName, c.record.id)
                  ELSE RowUpsert(rows, PersonTableName, c.record.id, c.record.atNs,
                                 c.record.data.payload)
        IN  /\ c.pc = "writeRow"
            /\ rows' = rs
            /\ columns' = ColumnsAfterWrite(rows, rs, columns)
            /\ callers' = [callers EXCEPT ![i].pc = "writeTombstone"]
            /\ UNCHANGED << deleted, sync >>
            /\ StatementFrame
            /\ Record(CallOf("writeRow", c))

\* The statement on _deleted: upsert the tombstone or delete it.
CallerWriteTombstone ==
    \E i \in DOMAIN callers :
        LET c == callers[i]
        IN  /\ c.pc = "writeTombstone"
            /\ deleted' = IF c.record.deleted
                          THEN TombstoneUpsert(deleted, PersonTableName, c.record.id,
                                               c.record.atNs)
                          ELSE TombstoneDelete(deleted, PersonTableName, c.record.id)
            /\ callers' = [callers EXCEPT ![i].pc = "syncUpsert"]
            /\ UNCHANGED << rows, sync, columns >>
            /\ StatementFrame
            /\ Record(CallOf("writeTombstone", c))

\* The statement on _sync.
CallerSyncUpsert ==
    \E i \in DOMAIN callers :
        LET c == callers[i]
        IN  /\ c.pc = "syncUpsert"
            /\ sync' = SyncUpsert(sync, c.record.id, PersonTableName, testRemoteA,
                                  c.record.atNs)
            /\ callers' = [callers EXCEPT ![i].pc = "done"]
            /\ UNCHANGED << rows, deleted, columns >>
            /\ StatementFrame
            /\ Record(CallOf("syncUpsert", c))

\* The whole apply of a caller in a transaction the backend serialises.
CallerApplyInTx ==
    \E i \in DOMAIN callers :
        LET c == callers[i]
        IN  /\ c.pc = "readRow" /\ c.inTx
            /\ Store(TableApply(DB, PersonDescriptor, testRemoteA, c.record))
            /\ callers' = [callers EXCEPT ![i].pc = "done"]
            /\ StatementFrame
            /\ Record(CallOf("applyInTx", c))

NextConcurrent ==
    \/ ConcurrentBegin
    \/ CallerReadRow
    \/ CallerReadTombstone
    \/ CallerWriteRow
    \/ CallerWriteTombstone
    \/ CallerSyncUpsert
    \/ CallerApplyInTx

SpecConcurrent == Init /\ [][NextConcurrent]_vars

\* ------------------------------------------ specification of the exports

\* Local writes and exports to a named remote and to the empty remote.
ExportInsert == nops < MaxExportOps /\ DoInsert({"Ada"}) /\ Logged
ExportUpdateByID == nops < MaxExportOps /\ DoUpdateByID(Ids, {"Bob"}) /\ Logged
ExportDeleteByID == nops < MaxExportOps /\ DoDeleteByID(Ids) /\ Logged
ExportWriteJSONL ==
    nops < MaxExportOps /\ DoWriteJSONL({testRemoteA, testRemoteEmpty}) /\ Logged

NextExport ==
    \/ ExportInsert
    \/ ExportUpdateByID
    \/ ExportDeleteByID
    \/ ExportWriteJSONL

SpecExport == Init /\ [][NextExport]_vars

\* ------------------------------ specification of the statements of a replay

\* The records other callers put into the quarantine before and during a
\* replay: versions of an object of the replayed type, a second object of
\* it, and versions of an object of another type.
ReplayRecords ==
    {JSONLRecord(unknownID, FALSE, t, MarshalAnyJSON(unknownTypeName, "old")) : t \in 1..MaxAtNs}
        \cup {JSONLRecord(drainPersonID, FALSE, 1, MarshalAnyJSON(unknownTypeName, "new"))}
        \cup {JSONLRecord(drainPersonID, FALSE, t, MarshalAnyJSON(PersonTypeName, "Recovered")) :
                 t \in 1..MaxAtNs}

\* A caller of ReplayUnknownByType(typeName, apply): its position, the rows
\* it read and has not replayed yet, the records it handed to apply. apply
\* fails for the ids in failing; inTx tells whether the call runs in a
\* transaction that keeps the statements of other callers out.
Replayer(typeName, failing, inTx) ==
    [pc |-> "compact", typeName |-> typeName, replayRows |-> << >>, applied |-> << >>,
     failing |-> failing, inTx |-> inTx]

\* The step is appended to the log with the quarantine it found.
ReplayFrame(op) ==
    /\ UNCHANGED << rows, deleted, sync, now, columns, indexes, schema >>
    /\ Record([Call(op, "", "", 0, "", << >>) EXCEPT
                  !.seen = [NothingSeen EXCEPT !.unknown = unknown]])
    /\ log' = Append(log, last')

\* UnknownInsert by another caller; a replay in a transaction keeps it out.
ReplayUnknownInsert ==
    /\ nops < MaxReplayInserts
    /\ \A i \in DOMAIN callers : callers[i].inTx => callers[i].pc \in {"done", "failed"}
    /\ \E record \in ReplayRecords :
          /\ DoUnknownInsert({TypeNameFromURL(record.data.type)}, {record})
          /\ ~last'.err
    /\ nops' = nops + 1
    /\ log' = Append(log, last')
    /\ UNCHANGED << indexes, schema, callers >>

\* ReplayUnknownByType is called.
ReplayBegin ==
    /\ callers = << >>
    /\ \E failing \in SUBSET {drainPersonID}, inTx \in BOOLEAN :
          callers' = << Replayer(unknownTypeName, failing, inTx) >>
    /\ UNCHANGED << unknown, nops >>
    /\ ReplayFrame("ReplayUnknownByType")

\* Its first statement: CompactUnknownLatest.
ReplayCompact ==
    \E i \in DOMAIN callers :
        /\ callers[i].pc = "compact"
        /\ unknown' = CompactUnknownLatest(unknown)
        /\ callers' = [callers EXCEPT ![i].pc = "select"]
        /\ UNCHANGED nops
        /\ ReplayFrame("compact")

\* The SELECT of the rows of the type, read in order into replayRows.
ReplaySelect ==
    \E i \in DOMAIN callers :
        LET c == callers[i]
            selected == OrderedRows(unknown, {j \in DOMAIN unknown :
                                                 unknown[j].type_name = c.typeName})
        IN  /\ c.pc = "select"
            /\ callers' = [callers EXCEPT ![i].replayRows = selected,
                                          ![i].pc = IF selected = << >> THEN "done"
                                                    ELSE "apply"]
            /\ UNCHANGED << unknown, nops >>
            /\ ReplayFrame("select")

\* apply(record) for the next row read.
ReplayApply ==
    \E i \in DOMAIN callers :
        LET c == callers[i]
            row == Head(c.replayRows)
            record == JSONLRecord(row.id, row.deleted # 0, row.at_ns, row.data_json)
        IN  /\ c.pc = "apply"
            /\ callers' = [callers EXCEPT ![i].applied = Append(@, record),
                                          ![i].pc = ReplayAfterApply(record.id \in c.failing)]
            /\ UNCHANGED << unknown, nops >>
            /\ ReplayFrame("apply")

\* The DELETE of the rows of the key that was applied.
ReplayDelete ==
    \E i \in DOMAIN callers :
        LET c == callers[i]
            row == Head(c.replayRows)
        IN  /\ c.pc = "delete"
            /\ unknown' = DeleteUnknownRows(unknown, c.typeName, row.id)
            /\ callers' = [callers EXCEPT ![i].replayRows = Tail(@),
                                          ![i].pc = IF Tail(c.replayRows) = << >> THEN "done"
                                                    ELSE "apply"]
            /\ UNCHANGED nops
            /\ ReplayFrame("delete")

NextReplay ==
    \/ ReplayUnknownInsert
    \/ ReplayBegin
    \/ ReplayCompact
    \/ ReplaySelect
    \/ ReplayApply
    \/ ReplayDelete

SpecReplay == Init /\ [][NextReplay]_vars

\* ------------------------------------- specification of the quarantine calls

\* The bytes of a data envelope that carries a field the receiver does not know.
payloadWithUnknownField == "new+unknown-field"

\* The records put into the quarantine by direct calls: versions of one
\* object of the unknown type, a deletion of it, a second and a third
\* object, and an object of another type.
QuarantineRecords ==
    {JSONLRecord(unknownID, FALSE, t, MarshalAnyJSON(unknownTypeName, "old")) : t \in {1, MaxAtNs}}
        \cup {JSONLRecord(unknownID, TRUE, MaxAtNs + 1, MarshalTypeOnlyAnyJSON(unknownTypeName)),
              JSONLRecord(drainPersonID, FALSE, 1,
                          MarshalAnyJSON(unknownTypeName, payloadWithUnknownField)),
              JSONLRecord(customID, FALSE, MaxAtNs, MarshalAnyJSON(unknownTypeName, "new")),
              JSONLRecord(drainPersonID, FALSE, 1, MarshalAnyJSON(PersonTypeName, "Recovered"))}

\* No replay that runs in a transaction is between its statements.
NoReplayInTx ==
    \A i \in DOMAIN callers : callers[i].inTx => callers[i].pc \in {"done", "failed"}

\* UnknownInsert and CompactUnknownLatest by callers other than the replay.
QuarantineInsert ==
    /\ nops < MaxQuarantineOps
    /\ NoReplayInTx
    /\ \E record \in QuarantineRecords :
          DoUnknownInsert({TypeNameFromURL(record.data.type)}, {record})
    /\ Logged
QuarantineCompact ==
    /\ nops < MaxQuarantineOps
    /\ NoReplayInTx
    /\ DoCompactUnknownLatest
    /\ Logged

\* ReplayUnknownByType is called with a type name and an apply that fails
\* for the ids in failing; an empty type name is an error before the first
\* statement.
QuarantineReplayBegin ==
    /\ nops < MaxQuarantineOps
    /\ callers = << >>
    /\ \E typeName \in {unknownTypeName, ""},
          failing \in {{}, {unknownID}, {drainPersonID}}, inTx \in BOOLEAN :
          /\ TrimSpace(typeName) = "" => (failing = {} /\ ~inTx)
          /\ callers' = << [Replayer(typeName, failing, inTx) EXCEPT
                               !.pc = IF TrimSpace(typeName) = "" THEN "failed" ELSE @] >>
          /\ Record([Call("ReplayUnknownByType", "", "", 0, "", << >>) EXCEPT
                        !.err = (TrimSpace(typeName) = ""), !.table = typeName,
                        !.seen = [NothingSeen EXCEPT !.unknown = unknown]])
    /\ nops' = nops + 1
    /\ log' = Append(log, last')
    /\ UNCHANGED << rows, deleted, sync, unknown, now, columns, indexes, schema >>

NextQuarantine ==
    \/ QuarantineInsert
    \/ QuarantineCompact
    \/ QuarantineReplayBegin
    \/ ReplayCompact
    \/ ReplaySelect
    \/ ReplayApply
    \/ ReplayDelete

SpecQuarantine == Init /\ [][NextQuarantine]_vars

\* ------------------------------- specification of quarantine and drain

\* The Person records of the streams of SpecDrain.
DrainRecords ==
    {PersonRecord(customID, t, "Bob") : t \in -1..MaxAtNs}
        \cup {PersonDeletion(customID, 1), PersonRecord(drainPersonID, 1, "Recovered")}

\* Streams that carry each record of a set once.
DrainStreams ==
    {lines \in UNION {[1..n -> DrainRecords] : n \in 1..MaxDrainBatch} :
        \A i, j \in DOMAIN lines : lines[i] = lines[j] => i = j}

\* Local writes, then an import by a binary that does not know Person, then
\* Person.Init of the binary that does.
DrainInsert == last.op \in {"Init", "Insert"} /\ nops < MaxPre /\ DoInsert({"Ada"}) /\ Counted
DrainDeleteByID ==
    last.op = "Insert" /\ nops < MaxPre /\ DoDeleteByID(Ids) /\ ~last'.err /\ Counted
DrainReadJSONL ==
    /\ last.op \in {"Init", "Insert", "DeleteByID"}
    /\ DoReadJSONLWithout({PersonTypeName}, {testRemoteA}, DrainStreams)
    /\ Uncounted
DrainTableInit ==
    /\ last.op = "ReadJSONLWithout"
    /\ DoTableInit({PersonDescriptor})
    /\ UNCHANGED << nops, callers, log >>

NextDrain ==
    \/ DrainInsert
    \/ DrainDeleteByID
    \/ DrainReadJSONL
    \/ DrainTableInit

SpecDrain == Init /\ [][NextDrain]_vars

\* ------------------------------------------------- vocabulary of the claims

SetMax(S) == CHOOSE m \in S : \A x \in S : x <= m

\* The timestamps the store holds for (tableName, id): live row and tombstone.
StoredTimes(rs, del, tableName, id) ==
    {r.at_ns : r \in {x \in rs : x.table_name = tableName /\ x.id = id}}
        \cup {r.at_ns : r \in {x \in del : x.table_name = tableName /\ x.id = id}}

\* The watermarks _sync holds for (id, tableName, remote).
Watermarks(s, id, tableName, remote) ==
    {r.at_ns : r \in {x \in s : x.object_id = id /\ x.table_name = tableName /\ x.remote = remote}}

IsPersonLine(line) ==
    ~line.malformed /\ line.data.type = "type.googleapis.com/generatedtest.example.Person"

\* The positions of the stream that carry a Person record for id.
PersonLinesOf(lines, id) == {i \in DOMAIN lines : IsPersonLine(lines[i]) /\ lines[i].id = id}

\* The store holds exactly what record w says about its object.
StateIsThatOf(rs, del, w) ==
    LET live == {x \in rs : x.table_name = PersonTableName /\ x.id = w.id}
        tomb == {x \in del : x.table_name = PersonTableName /\ x.id = w.id}
    IN  IF w.deleted
        THEN /\ live = {}
             /\ tomb = {[table_name |-> PersonTableName, id |-> w.id, at_ns |-> w.atNs]}
        ELSE /\ live = {[table_name |-> PersonTableName, id |-> w.id, at_ns |-> w.atNs,
                         data |-> w.data.payload]}
             /\ tomb = {}

\* After an import that ran to its end into a store without local state for
\* id, the state of id is that of a record of the stream with maximum atNs.
MaxRecordWins(id, lines, rs, del, rsAfter, delAfter, least) ==
    LET at == PersonLinesOf(lines, id)
        top == SetMax({lines[i].atNs : i \in at})
    IN  (at # {} /\ StoredTimes(rs, del, PersonTableName, id) = {} /\ top >= least)
            => \E i \in at : lines[i].atNs = top /\ StateIsThatOf(rsAfter, delAfter, lines[i])

\* C1 as stated: the record with maximum atNs wins, whatever that atNs is.
C1_MaxAtNsWinsAnyTime ==
    [][(last'.op = "ReadJSONL" /\ ~last'.err)
          => \A id \in Ids :
                MaxRecordWins(id, last'.lines, rows, deleted, rows', deleted', -1)]_vars

\* C1 amended: for a sync-enabled type, after the records of a stream have been
\* applied to a (table, id) without local state, and the maximum atNs among them
\* is at least 0, the state is that of a record with that maximum atNs: live row
\* with its payload and at_ns and no tombstone, or no live row and a tombstone
\* with its at_ns.
C1_MaxAtNsWins ==
    [][(last'.op = "ReadJSONL" /\ ~last'.err)
          => \A id \in Ids :
                MaxRecordWins(id, last'.lines, rows, deleted, rows', deleted', 0)]_vars

\* A deletion with the highest atNs arrived before an older live record of the
\* same object and the tombstone stands.
C1_Witness ==
    /\ last.op = "ReadJSONL" /\ ~last.err /\ nops = 0 /\ ~last.repeat
    /\ Len(last.lines) = 2
    /\ last.lines[1] = PersonDeletion(customID, 2)
    /\ last.lines[2] = PersonRecord(customID, 1, "Ada")
    /\ rows = {}
    /\ deleted = {[table_name |-> PersonTableName, id |-> customID, at_ns |-> 2]}

\* The streams that carry the lines of a stream in another order.
Reorderings(lines) ==
    LET n == Len(lines)
        perms == {f \in [1..n -> 1..n] : \A i, j \in 1..n : f[i] = f[j] => i = j}
    IN  {[i \in 1..n |-> lines[f[i]]] : f \in perms}

\* Importing any reordering into the store (rs, del, s, u) ends in the live
\* rows, tombstones and watermarks rsAfter, delAfter, sAfter.
OrderIndependent(rs, del, s, u, remote, lines, rsAfter, delAfter, sAfter) ==
    \A other \in Reorderings(lines) :
        LET r == CRUDReadJSONL([rows |-> rs, deleted |-> del, sync |-> s, unknown |-> u],
                               remote, other)
        IN  r.db.rows = rsAfter /\ r.db.deleted = delAfter /\ r.db.sync = sAfter

\* Two records of the stream for the same (type, id) with the same atNs are the
\* same record.
EqualTimesAreEqual(lines) ==
    \A i, j \in DOMAIN lines :
        (/\ ~lines[i].malformed /\ ~lines[j].malformed
         /\ lines[i].data.type = lines[j].data.type
         /\ lines[i].id = lines[j].id
         /\ lines[i].atNs = lines[j].atNs) => lines[i] = lines[j]

C3_ImportTwiceIsImportOnce ==
    [][(last'.op = "ReadJSONL" /\ last'.repeat)
          => (rows' = rows /\ deleted' = deleted /\ sync' = sync /\ unknown' = unknown)]_vars

\* C4: for a non-empty remote the stored _sync.at_ns never decreases: after
\* SyncUpsert(id, table, remote, t) it is max(previous, t), or t when there was
\* no row, and no step lowers or removes a stored watermark.
C4_WatermarkMonotone ==
    [][/\ (last'.op = "SyncUpsert" /\ last'.remote # "")
             => LET before == Watermarks(sync, last'.id, PersonTableName, last'.remote)
                    after == Watermarks(sync', last'.id, PersonTableName, last'.remote)
                IN  after = IF before = {} THEN {last'.atNs}
                            ELSE {IF b > last'.atNs THEN b ELSE last'.atNs : b \in before}
       /\ \A r \in sync :
             \E q \in sync' : /\ q.object_id = r.object_id
                              /\ q.table_name = r.table_name
                              /\ q.remote = r.remote
                              /\ q.at_ns >= r.at_ns]_vars

\* A SyncUpsert with an older time left the higher stored watermark in place.
C4_Witness ==
    /\ last.op = "SyncUpsert" /\ last.remote = testRemoteWS /\ last.atNs = 0
    /\ Watermarks(sync, last.id, PersonTableName, last.remote) = {2}

\* C5: SyncNeedsSend(id, table, remote, t) is true exactly when the remote is
\* empty, or _sync has no row for (id, table, remote), or the stored at_ns < t.
C5_NeedsSendExactly ==
    last.op = "SyncNeedsSend"
        => LET stored == Watermarks(sync, last.id, PersonTableName, last.remote)
           IN  last.ret = (\/ last.remote = ""
                           \/ stored = {}
                           \/ \E a \in stored : a < last.atNs)

\* SyncNeedsSend answered false for a time equal to the stored watermark.
C5_Witness ==
    /\ last.op = "SyncNeedsSend" /\ ~last.ret /\ last.remote # ""
    /\ Watermarks(sync, last.id, PersonTableName, last.remote) = {last.atNs}

\* C6: a WriteJSONL for a non-empty remote (a blank one included) that directly
\* follows a WriteJSONL for the same remote emits no line.
C6_SecondExportEmpty ==
    (/\ last.op = "WriteJSONL"
     /\ prevWrite.valid
     /\ prevWrite.remote = last.remote
     /\ last.remote # "") => last.out = << >>

\* The first export to the blank remote carried a live row and a tombstone,
\* the second carried nothing.
C6_Witness ==
    /\ last.op = "WriteJSONL" /\ last.remote = testRemoteWS /\ last.out = << >>
    /\ prevWrite.valid /\ prevWrite.remote = testRemoteWS
    /\ \E i \in DOMAIN prevWrite.out : prevWrite.out[i].deleted
    /\ \E i \in DOMAIN prevWrite.out : ~prevWrite.out[i].deleted

\* C7: _sync never holds a row with remote = "", and a WriteJSONL, ReadJSONL or
\* SyncUpsert with the empty remote leaves _sync as it was.
C7_NoEmptyRemoteRow ==
    /\ [](\A r \in sync : r.remote # "")
    /\ [][(last'.op \in {"WriteJSONL", "ReadJSONL", "SyncUpsert"} /\ last'.remote = "")
             => sync' = sync]_vars

\* An import with the empty remote applied its record next to watermarks of
\* another remote.
C7_Witness ==
    /\ last.op = "ReadJSONL" /\ last.remote = "" /\ ~last.err
    /\ \E r \in rows : r.id = last.lines[1].id /\ r.at_ns = last.lines[1].atNs
    /\ prevWrite.valid /\ prevWrite.remote = "" /\ prevWrite.out # << >>
    /\ sync # {}

\* An export line stands for live row r.
LineOfRow(line, r) ==
    /\ ~line.deleted /\ line.id = r.id /\ line.atNs = r.at_ns
    /\ line.data.payload = r.data

\* An export line stands for tombstone r.
LineOfTombstone(line, r) == line.deleted /\ line.id = r.id /\ line.atNs = r.at_ns

\* C8: the second of two successive WriteJSONL("") calls emits what the first
\* emitted, and that holds every live row and every tombstone of the
\* sync-enabled table, whatever watermarks other remotes have.
C8_EmptyRemoteExportsAll ==
    (/\ last.op = "WriteJSONL" /\ last.remote = ""
     /\ prevWrite.valid /\ prevWrite.remote = "")
        => /\ last.out = prevWrite.out
           /\ \A r \in rows :
                 r.table_name = PersonTableName
                     => \E i \in DOMAIN last.out : LineOfRow(last.out[i], r)
           /\ \A r \in deleted :
                 r.table_name = PersonTableName
                     => \E i \in DOMAIN last.out : LineOfTombstone(last.out[i], r)

\* Two exports to the empty remote carried a live row that remote-a already has.
C8_Witness ==
    /\ last.op = "WriteJSONL" /\ last.remote = ""
    /\ prevWrite.valid /\ prevWrite.remote = "" /\ prevWrite.out # << >>
    /\ \E r \in rows :
          \E w \in sync : /\ w.object_id = r.id /\ w.remote = testRemoteA
                          /\ w.at_ns >= r.at_ns

\* Line i of the stream is a Person record older than what the store holds
\* for its object.
StaleLine(rs, del, line) ==
    /\ IsPersonLine(line)
    /\ StoredTimes(rs, del, PersonTableName, line.id) # {}
    /\ line.atNs < SetMax(StoredTimes(rs, del, PersonTableName, line.id))

\* C9: importing records (live or deleted) whose atNs is strictly less than
\* the local effective timestamp of their object changes nothing: live rows
\* keep payload and at_ns, no tombstone is written or changed, and the _sync
\* rows are as before.
C9_StaleImportChangesNothing ==
    [][(/\ last'.op = "ReadJSONL"
        /\ \A i \in DOMAIN last'.lines : StaleLine(rows, deleted, last'.lines[i]))
          => (rows' = rows /\ deleted' = deleted /\ sync' = sync)]_vars

\* A stale deletion was imported from remote-a over a newer live row that
\* remote-a has a watermark for; row and watermark stand.
C9_Witness ==
    /\ last.op = "ReadJSONL" /\ ~last.repeat /\ last.remote = testRemoteA
    /\ last.lines = << PersonDeletion(customID, 0) >>
    /\ \E r \in rows : r.id = customID /\ r.at_ns = 1 /\ r.data = "Ada"
    /\ deleted = {}
    /\ Watermarks(sync, customID, PersonTableName, testRemoteA) = {1}

\* C10: importing one deletion record whose atNs is strictly greater than the
\* local effective timestamp of its object removes the live row, stores the
\* tombstone with the record's atNs, and leaves the watermark of a non-empty
\* importing remote at or above that atNs.
C10_NewerDeletionApplies ==
    [][(/\ last'.op = "ReadJSONL"
        /\ Len(last'.lines) = 1
        /\ IsPersonLine(last'.lines[1])
        /\ last'.lines[1].deleted
        /\ StoredTimes(rows, deleted, PersonTableName, last'.lines[1].id) # {}
        /\ last'.lines[1].atNs
              > SetMax(StoredTimes(rows, deleted, PersonTableName, last'.lines[1].id)))
          => LET record == last'.lines[1]
             IN  /\ \A r \in rows' : ~(r.table_name = PersonTableName /\ r.id = record.id)
                 /\ {r \in deleted' : r.table_name = PersonTableName /\ r.id = record.id}
                       = {[table_name |-> PersonTableName, id |-> record.id,
                           at_ns |-> record.atNs]}
                 /\ last'.remote # ""
                       => /\ Watermarks(sync', record.id, PersonTableName, last'.remote) # {}
                          /\ \A a \in Watermarks(sync', record.id, PersonTableName,
                                                 last'.remote) : a >= record.atNs]_vars

\* A deletion newer than the live row was imported from remote-a, which had a
\* watermark at the row's time: tombstone and watermark are at the deletion's time.
C10_Witness ==
    /\ last.op = "ReadJSONL" /\ ~last.repeat /\ last.remote = testRemoteA
    /\ last.lines = << PersonDeletion(customID, 2) >>
    /\ prevWrite.valid /\ prevWrite.out # << >>
    /\ rows = {}
    /\ deleted = {[table_name |-> PersonTableName, id |-> customID, at_ns |-> 2]}
    /\ Watermarks(sync, customID, PersonTableName, testRemoteA) = {2}

\* The stream is one Person record for an object the store holds.
OnePersonLine(rs, del, lines) ==
    /\ Len(lines) = 1
    /\ IsPersonLine(lines[1])
    /\ StoredTimes(rs, del, PersonTableName, lines[1].id) # {}

\* C11 as stated: importing a record whose atNs equals the local effective
\* timestamp of its object is a skip: no live row, tombstone or _sync row
\* changes, whatever the payload or the deleted flag of the record.
C11_EqualTimeIsSkip ==
    [][(/\ last'.op = "ReadJSONL"
        /\ OnePersonLine(rows, deleted, last'.lines)
        /\ last'.lines[1].atNs
              = SetMax(StoredTimes(rows, deleted, PersonTableName, last'.lines[1].id)))
          => (rows' = rows /\ deleted' = deleted /\ sync' = sync)]_vars

\* C11: importing a record whose atNs equals the local effective timestamp
\* of its object keeps the first-seen payload or tombstone: no live row and
\* no tombstone changes, whatever the payload or the deleted flag of the
\* record; a deletion record changes no _sync row either, and a live record
\* leaves the _sync rows as SyncUpsert(id, table, remote, atNs) does: for a
\* non-empty remote the watermark of the importing remote is then atNs or
\* more.
C11_EqualTimeKeepsState ==
    [][(/\ last'.op = "ReadJSONL"
        /\ OnePersonLine(rows, deleted, last'.lines)
        /\ last'.lines[1].atNs
              = SetMax(StoredTimes(rows, deleted, PersonTableName, last'.lines[1].id)))
          => /\ rows' = rows /\ deleted' = deleted
             /\ last'.lines[1].deleted => sync' = sync
             /\ ~last'.lines[1].deleted
                   => /\ \A w \in sync' \ sync :
                            /\ w.object_id = last'.lines[1].id
                            /\ w.table_name = PersonTableName
                            /\ w.remote = last'.remote
                      /\ last'.remote # ""
                            => Watermarks(sync', last'.lines[1].id, PersonTableName, last'.remote)
                                  = {SetMax(Watermarks(sync, last'.lines[1].id, PersonTableName,
                                                       last'.remote)
                                            \cup {last'.lines[1].atNs})}
                      /\ last'.remote = "" => sync' = sync]_vars

\* A record with another name and the time of the stored row was imported
\* from a remote without a watermark: the stored name stands and the remote
\* has its watermark at the time of the record.
C11_Witness ==
    /\ last.op = "ReadJSONL" /\ ~last.err /\ last.remote = testRemoteA
    /\ last.lines = << PersonRecord(customID, 1, "Bob") >>
    /\ rows = {[table_name |-> PersonTableName, id |-> customID, at_ns |-> 1, data |-> "Ada"]}
    /\ deleted = {}
    /\ sync = {[object_id |-> customID, table_name |-> PersonTableName,
                remote |-> testRemoteA, at_ns |-> 1]}

TableNames == {PersonTableName, NoteTableName}

\* C12: after every completed operation each (table, id) has at most one live
\* row and at most one tombstone, and never both.
C12_OneRowOrOneTombstone ==
    \A tableName \in TableNames, id \in Ids :
        LET live == {r \in rows : r.table_name = tableName /\ r.id = id}
            tomb == {r \in deleted : r.table_name = tableName /\ r.id = id}
        IN  /\ Cardinality(live) <= 1
            /\ Cardinality(tomb) <= 1
            /\ live = {} \/ tomb = {}

\* InsertWithID brought back an object that had been inserted and deleted: its
\* row is the only thing the store holds.
C12_Witness ==
    /\ last.op = "InsertWithID" /\ ~last.err /\ last.id = customID /\ last.atNs = 3
    /\ rows = {[table_name |-> PersonTableName, id |-> customID, at_ns |-> 3, data |-> "Ada"]}
    /\ deleted = {}

\* C13: importing a live record whose atNs is strictly greater than the at_ns
\* of the tombstone of its object resurrects the object: the live row holds
\* the record's payload and atNs and the tombstone is gone.
C13_NewerLiveResurrects ==
    [][(/\ last'.op = "ReadJSONL"
        /\ Len(last'.lines) = 1
        /\ IsPersonLine(last'.lines[1])
        /\ ~last'.lines[1].deleted
        /\ \E t \in deleted : /\ t.table_name = PersonTableName
                              /\ t.id = last'.lines[1].id
                              /\ t.at_ns < last'.lines[1].atNs)
          => LET record == last'.lines[1]
             IN  /\ {r \in rows' : r.table_name = PersonTableName /\ r.id = record.id}
                       = {[table_name |-> PersonTableName, id |-> record.id,
                           at_ns |-> record.atNs, data |-> record.data.payload]}
                 /\ \A t \in deleted' : ~(t.table_name = PersonTableName /\ t.id = record.id)]_vars

\* A live record newer than both local operations was imported after an
\* insert and a delete, and its row is all the store holds of the object.
C13_Witness ==
    /\ last.op = "ReadJSONL" /\ ~last.err /\ now = 3 /\ nops = 3
    /\ last.lines = << PersonRecord(customID, 3, "Bob") >>
    /\ rows = {[table_name |-> PersonTableName, id |-> customID, at_ns |-> 3, data |-> "Bob"]}
    /\ deleted = {}

\* The payload passes the write validation of the table's type.
PayloadAccepted(tableName, data) == tableName = NoteTableName \/ data # ""

\* C14: UpdateByID (or UpdateRow) with an accepted payload on an object that
\* was deleted locally (tombstone not newer than the clock, no live row)
\* succeeds, writes the live row at NowNs() and removes the tombstone.
C14_UpdateAfterDeleteResurrects ==
    [][(/\ last'.op = "UpdateByID"
        /\ PayloadAccepted(last'.table, last'.data)
        /\ \A r \in rows : ~(r.table_name = last'.table /\ r.id = last'.id)
        /\ \E t \in deleted : /\ t.table_name = last'.table /\ t.id = last'.id
                              /\ t.at_ns <= now)
          => /\ ~last'.err
             /\ {r \in rows' : r.table_name = last'.table /\ r.id = last'.id}
                   = {[table_name |-> last'.table, id |-> last'.id, at_ns |-> now,
                       data |-> last'.data]}
             /\ \A t \in deleted' : ~(t.table_name = last'.table /\ t.id = last'.id)]_vars

\* Insert, DeleteByID, UpdateByID of one Person: the updated row is all the
\* store holds.
C14_Witness ==
    /\ last.op = "UpdateByID" /\ ~last.err /\ last.atNs = 3 /\ nops = 3
    /\ last.table = PersonTableName
    /\ rows = {[table_name |-> PersonTableName, id |-> last.id, at_ns |-> 3, data |-> "Bob"]}
    /\ deleted = {}
    /\ sync = {}

\* C15: UpdateByID with a valid id that has neither a live row nor a tombstone
\* fails and creates no live row, no tombstone and no _sync row.
C15_StrictUpdate ==
    [][(/\ last'.op = "UpdateByID"
        /\ last'.id \in Ids
        /\ \A r \in rows : ~(r.table_name = last'.table /\ r.id = last'.id)
        /\ \A t \in deleted : ~(t.table_name = last'.table /\ t.id = last'.id))
          => (last'.err /\ rows' = rows /\ deleted' = deleted /\ sync' = sync)]_vars

\* UpdateByID of an absent Person failed next to the row of another Person.
C15_Witness ==
    /\ last.op = "UpdateByID" /\ last.err /\ last.id = customID /\ last.data = "Bob"
    /\ last.table = PersonTableName
    /\ rows = {[table_name |-> PersonTableName, id |-> drainPersonID, at_ns |-> 1,
                data |-> "Ada"]}
    /\ deleted = {}
    /\ sync = {}

\* C16: after DeleteByID (or DeleteRow) succeeds on an existing object, the
\* object has no live row and exactly one tombstone, whose at_ns is the value
\* NowNs() returned to the delete.
C16_DeleteLeavesTombstoneAtNow ==
    [][(/\ last'.op = "DeleteByID"
        /\ ~last'.err
        /\ \E r \in rows : r.table_name = last'.table /\ r.id = last'.id)
          => /\ \A r \in rows' : ~(r.table_name = last'.table /\ r.id = last'.id)
             /\ {t \in deleted' : t.table_name = last'.table /\ t.id = last'.id}
                   = {[table_name |-> last'.table, id |-> last'.id, at_ns |-> now]}]_vars

\* A Person inserted at time 1 was deleted at time 2.
C16_Witness ==
    /\ last.op = "DeleteByID" /\ ~last.err /\ last.atNs = 2 /\ nops = 2
    /\ last.table = PersonTableName
    /\ rows = {}
    /\ deleted = {[table_name |-> PersonTableName, id |-> last.id, at_ns |-> 2]}

IsNoteLine(line) ==
    ~line.malformed /\ line.data.type = "type.googleapis.com/generatedtest.example.Note"

\* C17: ReadJSONL of a record of the omit_sync type Note is a skip without
\* error: no live row and no tombstone of the Note table is created or
\* changed and no _sync row is written, whatever the record's atNs.
C17_OmitSyncImportSkipped ==
    [][(/\ last'.op = "ReadJSONL"
        /\ Len(last'.lines) = 1
        /\ IsNoteLine(last'.lines[1]))
          => /\ ~last'.err
             /\ {r \in rows' : r.table_name = NoteTableName}
                   = {r \in rows : r.table_name = NoteTableName}
             /\ {t \in deleted' : t.table_name = NoteTableName}
                   = {t \in deleted : t.table_name = NoteTableName}
             /\ sync' = sync
             /\ \A w \in sync' : ~(w.table_name = NoteTableName /\ w.object_id = last'.lines[1].id)]_vars

\* A Note record newer than the locally inserted Note of the same id was
\* imported from remote-a; the local row stands and _sync is empty.
C17_Witness ==
    /\ last.op = "ReadJSONL" /\ ~last.err /\ last.remote = testRemoteA
    /\ last.lines = << NoteRecord(customID, 3) >>
    /\ rows = {[table_name |-> NoteTableName, id |-> customID, at_ns |-> 1, data |-> "Ada"]}
    /\ deleted = {}
    /\ sync = {}

\* C18: WriteJSONL never emits a line, live or deletion, for an object of the
\* omit_sync type Note, for any remote and after any inserts, updates and
\* deletes on Note.
C18_OmitSyncNeverExported ==
    last.op = "WriteJSONL" => \A i \in DOMAIN last.out : ~IsNoteLine(last.out[i])

\* With the tombstone of a deleted Note and a live Person in the store, the
\* export to remote-a is the one Person line.
C18_Witness ==
    /\ last.op = "WriteJSONL" /\ last.remote = testRemoteA
    /\ \E t \in deleted : t.table_name = NoteTableName
    /\ Len(last.out) = 1
    /\ IsPersonLine(last.out[1])
    /\ \E r \in rows : r.table_name = PersonTableName /\ r.id = last.out[1].id

\* C19: validate_write is not applied to imported data: a live Person record
\* with a blank name, which Valid() rejects, and an atNs newer than the local
\* state is applied by ReadJSONL without error and replaces the live payload.
C19_ImportSkipsValidation ==
    [][(/\ last'.op = "ReadJSONL"
        /\ OnePersonLine(rows, deleted, last'.lines)
        /\ ~last'.lines[1].deleted
        /\ last'.lines[1].data.payload = ""
        /\ \E r \in rows : r.table_name = PersonTableName /\ r.id = last'.lines[1].id
        /\ last'.lines[1].atNs
              > SetMax(StoredTimes(rows, deleted, PersonTableName, last'.lines[1].id)))
          => /\ ~last'.err
             /\ {r \in rows' : r.table_name = PersonTableName /\ r.id = last'.lines[1].id}
                   = {[table_name |-> PersonTableName, id |-> last'.lines[1].id,
                       at_ns |-> last'.lines[1].atNs, data |-> ""]}]_vars

\* After a local insert of "Ada" at time 1, the blank-named record at time 2
\* was imported and is the live row.
C19_Witness ==
    /\ last.op = "ReadJSONL" /\ ~last.err /\ nops = 2 /\ now = 2
    /\ last.lines = << PersonRecord(customID, 2, "") >>
    /\ rows = {[table_name |-> PersonTableName, id |-> customID, at_ns |-> 2, data |-> ""]}

\* C20: for the validate_write type Person, Insert and UpdateByID (or
\* UpdateRow) with a payload that Valid() rejects fail and leave live rows,
\* tombstones and _sync rows unchanged.
C20_InvalidWriteRejected ==
    [][(/\ last'.op \in {"Insert", "UpdateByID"}
        /\ last'.table = PersonTableName
        /\ last'.data = "")
          => (last'.err /\ rows' = rows /\ deleted' = deleted /\ sync' = sync)]_vars

\* UpdateByID with a blank name failed on a Person that exists and has been
\* exported to remote-a.
C20_Witness ==
    /\ last.op = "UpdateByID" /\ last.err /\ last.data = ""
    /\ last.table = PersonTableName
    /\ rows = {[table_name |-> PersonTableName, id |-> last.id, at_ns |-> 1, data |-> "Ada"]}
    /\ Watermarks(sync, last.id, PersonTableName, testRemoteA) = {1}

\* C21: InsertWithID fails and changes nothing when the id is empty, when it
\* is not a UUID, or when the payload is nil; when it succeeds the row is
\* stored under exactly the supplied id with the payload at NowNs() and no
\* other row changes; and it succeeds for a UUID that has no live row and a
\* payload the type accepts.
C21_InsertWithIDChecksArguments ==
    [][last'.op = "InsertWithID"
          => LET mine(rs) == {r \in rs : r.table_name = last'.table /\ r.id = last'.id}
             IN  /\ (last'.id = "" \/ last'.id = "not-a-uuid" \/ last'.data = "<nil>")
                       => (last'.err /\ rows' = rows /\ deleted' = deleted /\ sync' = sync)
                 /\ ~last'.err
                       => /\ mine(rows') = {[table_name |-> last'.table, id |-> last'.id,
                                             at_ns |-> now, data |-> last'.data]}
                          /\ rows' \ mine(rows') = rows \ mine(rows)
                 /\ (/\ last'.id \in Ids
                     /\ last'.data \notin {"", "<nil>"}
                     /\ mine(rows) = {})
                       => ~last'.err]_vars

\* InsertWithID stored "Ada" under the supplied id next to the row of a Person
\* whose id Insert had allocated.
C21_Witness ==
    /\ last.op = "InsertWithID" /\ ~last.err /\ last.id = customID /\ nops = 2
    /\ rows = {[table_name |-> PersonTableName, id |-> drainPersonID, at_ns |-> 1,
                data |-> "Ada"],
               [table_name |-> PersonTableName, id |-> customID, at_ns |-> 2,
                data |-> "Ada"]}
    /\ deleted = {}

\* The line is a Person record whose id is no UUID.
InvalidIdLine(line) == IsPersonLine(line) /\ line.id = "not-a-uuid"

\* C22: ReadJSONL skips a record of the sync-enabled type Person whose id is
\* not a UUID: no live row, tombstone or _sync row exists for that id
\* afterwards, and the import ends as the import of the stream without such
\* records ends, so the other records are processed.
C22_InvalidIdSkipped ==
    [][(/\ last'.op = "ReadJSONL"
        /\ \E i \in DOMAIN last'.lines : InvalidIdLine(last'.lines[i]))
          => LET rest == SelectSeq(last'.lines, LAMBDA l : ~InvalidIdLine(l))
                 r == CRUDReadJSONL([rows |-> rows, deleted |-> deleted, sync |-> sync,
                                     unknown |-> unknown], last'.remote, rest)
             IN  /\ \A x \in rows' : x.id # "not-a-uuid"
                 /\ \A x \in deleted' : x.id # "not-a-uuid"
                 /\ \A x \in sync' : x.object_id # "not-a-uuid"
                 /\ last'.err = r.err
                 /\ rows' = r.db.rows
                 /\ deleted' = r.db.deleted
                 /\ sync' = r.db.sync
                 /\ unknown' = r.db.unknown]_vars

\* A stream of a Person without a UUID followed by a Person with one was
\* imported into an empty store: the second is the only row.
C22_Witness ==
    /\ last.op = "ReadJSONL" /\ ~last.err /\ nops = 0
    /\ last.lines = << PersonRecord(notAUUID, MaxAtNs, "Ada"), PersonRecord(customID, 1, "Bob") >>
    /\ rows = {[table_name |-> PersonTableName, id |-> customID, at_ns |-> 1, data |-> "Bob"]}
    /\ deleted = {}
    /\ sync = {[object_id |-> customID, table_name |-> PersonTableName,
                remote |-> testRemoteA, at_ns |-> 1]}

IsUnknownLine(line) ==
    ~line.malformed /\ line.data.type = "type.googleapis.com/generatedtest.example.UnknownThing"

\* The positions of the quarantine that hold a version of (typeName, id).
QuarantinedAt(u, typeName, id) ==
    {i \in DOMAIN u : u[i].type_name = typeName /\ u[i].id = id}

\* C23: after a ReadJSONL that returned nil on a stream holding versions of
\* an object of the unknown type, _unknown_types holds exactly one row for
\* that (type_name, id), and its at_ns is the maximum atNs among those
\* versions and the versions the quarantine held before the import (it held
\* none on a fresh store).
C23_QuarantineKeepsLatest ==
    [][(last'.op = "ReadJSONL" /\ ~last'.err)
          => LET lines == last'.lines
                 versions == {lines[i].atNs :
                                 i \in {j \in DOMAIN lines : /\ IsUnknownLine(lines[j])
                                                             /\ lines[j].id = unknownID}}
                 before == {unknown[i].at_ns :
                               i \in QuarantinedAt(unknown, unknownTypeName, unknownID)}
                 after == QuarantinedAt(unknown', unknownTypeName, unknownID)
             IN  versions # {}
                    => /\ Cardinality(after) = 1
                       /\ \A i \in after : unknown'[i].at_ns = SetMax(versions \cup before)]_vars

\* The newer version came first in the stream and is the one row left.
C23_Witness ==
    /\ last.op = "ReadJSONL" /\ ~last.err /\ nops = 0
    /\ last.lines = << UnknownRecord(unknownID, 2), UnknownRecord(unknownID, 1) >>
    /\ Len(unknown) = 1
    /\ unknown[1].type_name = unknownTypeName /\ unknown[1].id = unknownID
    /\ unknown[1].at_ns = 2

\* C25: a record of a type unknown to the binary is quarantined and is not
\* an error: a ReadJSONL of records of the unknown type returns nil and
\* _unknown_types holds each of them or a newer version, whatever the
\* quarantine held before, a row with the same type_name, id and at_ns included.
C25_UnknownTypeNeverAnError ==
    [][(/\ last'.op = "ReadJSONL"
        /\ \A i \in DOMAIN last'.lines : IsUnknownLine(last'.lines[i]))
          => /\ ~last'.err
             /\ \A i \in DOMAIN last'.lines :
                   \E j \in QuarantinedAt(unknown', unknownTypeName, last'.lines[i].id) :
                       unknown'[j].at_ns >= last'.lines[i].atNs]_vars

\* The outcomes of visiting the records of a stream in order, up to and
\* including the first record that does not decode or whose visit fails.
RECURSIVE Visited(_, _, _)
Visited(db, remote, lines) ==
    IF lines = << >> THEN << >>
    ELSE LET v == IF Head(lines).malformed THEN [err |-> TRUE, db |-> db]
                  ELSE VisitRecord(db, remote, Head(lines))
         IN  IF v.err THEN << v >>
             ELSE << v >> \o Visited(v.db, remote, Tail(lines))

\* C26: ReadJSONL visits the records in stream order. At the first record
\* that does not decode it returns an error that names the 1-based position
\* of that record, no later record is visited, and what the records before
\* it did to live rows, tombstones, _sync and the quarantine remains; a
\* failed visit stops the import at that record in the same way; at the end
\* of the input it returns nil.
C26_StopsAtFirstBadLine ==
    [][last'.op = "ReadJSONL"
          => \A T \in {Visited([rows |-> rows, deleted |-> deleted, sync |-> sync,
                                unknown |-> unknown], last'.remote, last'.lines)} :
                LET k == Len(T)
                    reached == T[k].db
                IN  IF ~T[k].err
                    THEN /\ k = Len(last'.lines)
                         /\ ~last'.err
                         /\ rows' = reached.rows
                         /\ deleted' = reached.deleted
                         /\ sync' = reached.sync
                    ELSE /\ last'.err
                         /\ last'.lines[k].malformed => last'.line = k
                         /\ rows' = reached.rows
                         /\ deleted' = reached.deleted
                         /\ sync' = reached.sync
                         /\ \A i \in DOMAIN reached.unknown :
                               \E j \in QuarantinedAt(unknown', reached.unknown[i].type_name,
                                                      reached.unknown[i].id) :
                                   unknown'[j].at_ns >= reached.unknown[i].at_ns]_vars

\* The second line of the stream did not decode: the error names line 2, and
\* the Person of the first line is stored with its watermark.
C26_Witness ==
    /\ last.op = "ReadJSONL" /\ last.err /\ last.line = 2 /\ nops = 0
    /\ last.lines = << PersonRecord(customID, 1, "Bob"), MalformedLine >>
    /\ rows = {[table_name |-> PersonTableName, id |-> customID, at_ns |-> 1, data |-> "Bob"]}
    /\ sync = {[object_id |-> customID, table_name |-> PersonTableName,
                remote |-> testRemoteA, at_ns |-> 1]}

\* C24: Init of the Person table module drains the quarantine of its type:
\* afterwards _unknown_types has no row with type_name Person, and every
\* quarantined live record with a UUID that was the latest version of its
\* object and newer than the local state of the object is a live row with
\* the record's at_ns and payload, as Select returns it.
C24_InitDrainsQuarantine ==
    [][(last'.op = "TableInit" /\ ~last'.err /\ last'.table = PersonTableName)
          => /\ \A i \in DOMAIN unknown' :
                   unknown'[i].type_name # "generatedtest.example.Person"
             /\ \A i \in DOMAIN unknown :
                   (/\ unknown[i].type_name = "generatedtest.example.Person"
                    /\ unknown[i].id \in Ids
                    /\ unknown[i].deleted = 0
                    /\ \A j \in QuarantinedAt(unknown, unknown[i].type_name, unknown[i].id) :
                          unknown[j].at_ns <= unknown[i].at_ns
                    /\ \A t \in StoredTimes(rows, deleted, PersonTableName, unknown[i].id) :
                          t < unknown[i].at_ns)
                      => \E r \in rows' : /\ r.table_name = PersonTableName
                                          /\ r.id = unknown[i].id
                                          /\ r.at_ns = unknown[i].at_ns
                                          /\ r.data = unknown[i].data_json.payload]_vars

\* Person.Init found the versions "old" and "new" of a Person in the
\* quarantine next to the local row "Ada" of the same id: the row is now
\* "new" and the quarantine is empty.
C24_Witness ==
    /\ last.op = "TableInit" /\ ~last.err /\ nops = 4
    /\ Len(last.seen.unknown) = 2
    /\ \E i \in DOMAIN last.seen.unknown : last.seen.unknown[i].data_json.payload = "old"
    /\ rows = {[table_name |-> PersonTableName, id |-> drainPersonID, at_ns |-> 2,
                data |-> "new"]}
    /\ unknown = << >>

\* C27: after Init of the Person table module an index of the table exists
\* exactly when it is in the desired set, or it existed before and its name
\* does not start with idx_generatedtest_example_person__.
C27_ManagedIndexes ==
    [][(last'.op = "TableInit" /\ ~last'.err /\ last'.table = PersonTableName)
          => LET on(ix) == {x.name : x \in {y \in ix : y.table_name = PersonTableName}}
                 desired == {"idx_generatedtest_example_person__name",
                             "idx_generatedtest_example_person__name_age"}
                 prefixed == desired \cup {"idx_generatedtest_example_person__stale"}
             IN  on(indexes') = desired \cup (on(indexes) \ prefixed)]_vars

\* Person.Init found a stale generated index and a user index and missed a
\* desired one: the stale one is gone, the user index is kept, the desired
\* ones exist.
C27_Witness ==
    /\ last.op = "TableInit" /\ ~last.err
    /\ last.seen.indexes = {personNameAgeIndex, personStaleIndex, personUserIndex,
                            AutoIndex(PersonTableName)}
    /\ {x.name : x \in {y \in indexes : y.table_name = PersonTableName}}
          = {personNameIndex, personNameAgeIndex, personUserIndex, AutoIndex(PersonTableName)}

\* C28: when the stored schema_hash of the Person table differs from the
\* generated hash, Init stores the generated hash, and afterwards the
\* projected column of every live row is the field decoded from the row's data.
C28_ReprojectionOnDrift ==
    [][(/\ last'.op = "TableInit" /\ ~last'.err /\ last'.table = PersonTableName
        /\ \A r \in schema : r.table_name = PersonTableName => r.schema_hash # "hash-person")
          => /\ {r.schema_hash : r \in {x \in schema' : x.table_name = PersonTableName}}
                   = {"hash-person"}
             /\ \A r \in rows' :
                   r.table_name = PersonTableName
                       => {c.name : c \in {x \in columns' : /\ x.table_name = r.table_name
                                                            /\ x.id = r.id}}
                             = {r.data}]_vars

\* Person.Init found the hash "stale" and a row whose projected name had
\* been overwritten: the column is "Ada" again and the hash is the generated one.
C28_Witness ==
    /\ last.op = "TableInit" /\ ~last.err
    /\ last.seen.hash = staleHash
    /\ \E c \in last.seen.columns : c.name = degradedName
    /\ \E r \in rows : r.data = "Ada"
    /\ \A c \in columns : c.name = "Ada"
    /\ columns # {}
    /\ schema = {[table_name |-> d.TableName, schema_hash |-> SchemaHash(d)] : d \in Descriptors}

\* Both callers have finished their applies.
BothDone == Len(callers) = 2 /\ \A i \in DOMAIN callers : callers[i].pc = "done"

\* The store holds the state of a record of the two callers with maximum atNs.
MaxOfCallersWins ==
    MaxRecordWins(customID, << callers[1].record, callers[2].record >>, {}, {},
                  rows, deleted, 0)

\* C29 as stated: two callers apply records for the same (table, id), each
\* issuing its own statements, and for every interleaving of the statements
\* the final live/tombstone state is that of the record with maximum atNs.
C29_EveryInterleaving == BothDone => MaxOfCallersWins

\* C29: when each of the two callers runs its apply in a transaction of its
\* own that the backend serialises, the final live/tombstone state is that
\* of a record with the maximum atNs, in either order of the transactions.
C29_SerialisedAppliesConverge ==
    (BothDone /\ \A i \in DOMAIN callers : callers[i].inTx) => MaxOfCallersWins

\* The transaction with the older live record ran after the one with the
\* newer deletion, and the tombstone stands.
C29_Witness ==
    /\ BothDone
    /\ \A i \in DOMAIN callers : callers[i].inTx
    /\ {callers[1].record, callers[2].record}
          = {PersonDeletion(customID, 2), PersonRecord(customID, 1, "Ada")}
    /\ last.op = "applyInTx" /\ last.atNs = 1
    /\ rows = {}
    /\ deleted = {[table_name |-> PersonTableName, id |-> customID, at_ns |-> 2]}

\* Call i of the log is a WriteJSONL to remote.
IsExportTo(i, remote) == log[i].op = "WriteJSONL" /\ log[i].remote = remote

\* The lines export i of the log carries for id.
LinesOf(i, id) == {n \in DOMAIN log[i].out : log[i].out[n].id = id}

\* Call i of the log is a local write of id that succeeded.
IsWriteOf(i, id) ==
    log[i].op \in {"Insert", "UpdateByID", "DeleteByID"} /\ log[i].id = id /\ ~log[i].err

\* Export k to remote is the first one after call j, and id is not written
\* between the two.
NextExportAfter(j, k, remote, id) ==
    /\ j < k
    /\ IsExportTo(k, remote)
    /\ \A m \in (j + 1)..(k - 1) : ~IsExportTo(m, remote) /\ ~IsWriteOf(m, id)

\* Export i to remote carried id live and call j, later, is the local op on id.
ExportedThen(i, j, remote, id, op) ==
    /\ i < j
    /\ IsExportTo(i, remote)
    /\ \E n \in LinesOf(i, id) : ~log[i].out[n].deleted
    /\ log[j].op = op /\ log[j].id = id /\ ~log[j].err

\* C30: an object exported live to a non-empty remote r and then deleted
\* locally has exactly one line in the next WriteJSONL(r), a deletion whose
\* atNs is the tombstone's at_ns, and no line in the WriteJSONL(r) after
\* that; an object updated locally after the export has exactly one line in
\* the next WriteJSONL(r), a live one with the update's payload and at_ns.
C30_OneLinePerChange ==
    \A id \in Ids : \A i, j, k \in DOMAIN log :
        LET r == log[i].remote
        IN  /\ (r # "" /\ ExportedThen(i, j, r, id, "DeleteByID")
                   /\ NextExportAfter(j, k, r, id))
              => /\ \E n \in LinesOf(k, id) :
                       /\ LinesOf(k, id) = {n}
                       /\ log[k].out[n].deleted
                       /\ log[k].out[n].atNs = log[j].atNs
                 /\ \A m \in DOMAIN log : NextExportAfter(k, m, r, id) => LinesOf(m, id) = {}
            /\ (r # "" /\ ExportedThen(i, j, r, id, "UpdateByID")
                   /\ NextExportAfter(j, k, r, id))
              => \E n \in LinesOf(k, id) :
                    /\ LinesOf(k, id) = {n}
                    /\ ~log[k].out[n].deleted
                    /\ log[k].out[n].atNs = log[j].atNs
                    /\ log[k].out[n].data.payload = log[j].data

\* Insert, export, delete, export, export: the second export carried the
\* deletion at the tombstone's at_ns and the third carried nothing.
C30_Witness ==
    /\ Len(log) = 5
    /\ [i \in 1..5 |-> log[i].op]
          = << "Insert", "WriteJSONL", "DeleteByID", "WriteJSONL", "WriteJSONL" >>
    /\ \A i \in {2, 4, 5} : log[i].remote = testRemoteA
    /\ Len(log[2].out) = 1 /\ ~log[2].out[1].deleted
    /\ Len(log[4].out) = 1 /\ log[4].out[1].deleted
    /\ \E d \in deleted : d.at_ns = log[4].out[1].atNs /\ d.id = log[4].out[1].id
    /\ log[5].out = << >>

\* The positions of u that hold the maximum at_ns of their (type_name, id).
LatestOfKey(u) ==
    {i \in DOMAIN u : \A j \in QuarantinedAt(u, u[i].type_name, u[i].id) :
                         u[j].at_ns <= u[i].at_ns}

\* C31: after CompactUnknownLatest every (type_name, id) that had a
\* quarantine row has exactly one row left, its at_ns is the maximum at_ns
\* the key had before, and rows of no other key appear.
C31_CompactKeepsOneLatest ==
    [][last'.op = "CompactUnknownLatest"
          => /\ \A i \in DOMAIN unknown :
                   \E j \in DOMAIN unknown' :
                      /\ QuarantinedAt(unknown', unknown[i].type_name, unknown[i].id) = {j}
                      /\ unknown'[j].at_ns
                            = SetMax({unknown[k].at_ns :
                                        k \in QuarantinedAt(unknown, unknown[i].type_name,
                                                            unknown[i].id)})
             /\ \A j \in DOMAIN unknown' : \E i \in DOMAIN unknown : unknown[i] = unknown'[j]]_vars

\* CompactUnknownLatest found two versions of one object and a row of
\* another object: the older version is gone, the other two rows stay.
C31_Witness ==
    /\ last.op = "CompactUnknownLatest"
    /\ Len(last.seen.unknown) = 3
    /\ Len(unknown) = 2
    /\ \E i, j \in DOMAIN last.seen.unknown :
          /\ last.seen.unknown[i].id = last.seen.unknown[j].id
          /\ last.seen.unknown[i].type_name = last.seen.unknown[j].type_name
          /\ last.seen.unknown[i].at_ns < last.seen.unknown[j].at_ns
    /\ \E i, j \in DOMAIN unknown : unknown[i].id # unknown[j].id

\* Record a comes before record b in the replay order (at_ns, then id).
ReplaysBefore(a, b) ==
    \/ a.atNs < b.atNs
    \/ a.atNs = b.atNs /\ IdRank(a.id) < IdRank(b.id)

\* The records of the rows of type typeName that a compaction of u leaves.
LatestRecordsOf(u, typeName) ==
    {JSONLRecord(u[i].id, u[i].deleted = 1, u[i].at_ns, u[i].data_json) :
        i \in {j \in LatestOfKey(u) : u[j].type_name = typeName}}

\* The replay has just returned.
ReplayReturned ==
    /\ Len(callers) = 1
    /\ callers[1].pc \in {"done", "failed"}
    /\ last.op \in {"select", "apply", "delete"}

\* The position of the call of ReplayUnknownByType in the log, and the
\* quarantine the call found.
ReplayCalledAt == CHOOSE b \in DOMAIN log : log[b].op = "ReplayUnknownByType"
ReplayFound == log[ReplayCalledAt].seen.unknown

\* Every step since the call was a statement of the replay: no UnknownInsert
\* and no CompactUnknownLatest of another caller came in between.
ReplayUndisturbed ==
    \A k \in DOMAIN log :
        k > ReplayCalledAt => log[k].op \in {"compact", "select", "apply", "delete"}

\* C32: ReplayUnknownByType(T, apply), with no statement of another caller
\* between its own, hands to apply only rows of type T that a compaction
\* leaves, each at most once, in ascending (at_ns, id) order; when every
\* apply succeeded and it returns, each such row was handed to apply, no
\* row of type T remains, and the rows of every other type are those a
\* compaction alone leaves.
C32_ReplayCompactsOrdersDeletes ==
    (Len(callers) = 1 /\ callers[1].typeName # "" /\ ReplayUndisturbed)
        => LET typeName == callers[1].typeName
               applied == callers[1].applied
           IN  /\ \A a \in DOMAIN applied : applied[a] \in LatestRecordsOf(ReplayFound, typeName)
               /\ \A a, b \in DOMAIN applied : a < b => ReplaysBefore(applied[a], applied[b])
               /\ (ReplayReturned /\ callers[1].pc = "done")
                     => /\ {applied[a] : a \in DOMAIN applied}
                              = LatestRecordsOf(ReplayFound, typeName)
                        /\ \A j \in DOMAIN unknown : unknown[j].type_name # typeName
                        /\ unknown = KeepRows(ReplayFound,
                                              {i \in LatestOfKey(ReplayFound) :
                                                  ReplayFound[i].type_name # typeName})

\* A replay of the unknown type with an apply that always succeeds found
\* two objects of the type, the one with the higher rowid being the older,
\* and a row of Person: the older was applied first, and only the Person
\* row is left.
C32_Witness ==
    /\ ReplayReturned /\ callers[1].pc = "done" /\ ReplayUndisturbed
    /\ callers[1].typeName = unknownTypeName /\ ~callers[1].inTx
    /\ Len(ReplayFound) = 3
    /\ ReplayFound[1].type_name = unknownTypeName /\ ReplayFound[1].at_ns = 2
    /\ Len(callers[1].applied) = 2
    /\ callers[1].applied[1].id = drainPersonID /\ callers[1].applied[1].atNs = 1
    /\ callers[1].applied[2].id = unknownID /\ callers[1].applied[2].atNs = 2
    /\ Len(unknown) = 1 /\ unknown[1].type_name = PersonTypeName

\* C33: when apply returns an error for a row, ReplayUnknownByType returns
\* an error and stops, so that row is the last one handed to apply; with no
\* statement of another caller in between, the failing row and every row
\* later in the replay order are still in _unknown_types and the later ones
\* were not handed to apply, while the rows applied before it are deleted.
C33_ReplayStopsAtFailingApply ==
    \A i \in DOMAIN callers :
        LET c == callers[i]
            typeName == c.typeName
            applied == c.applied
            n == Len(applied)
            stays(rec) == \E j \in DOMAIN unknown :
                             /\ unknown[j].type_name = typeName
                             /\ unknown[j].id = rec.id
                             /\ unknown[j].at_ns = rec.atNs
                             /\ unknown[j].data_json = rec.data
        IN  /\ \A a \in 1..n : applied[a].id \in c.failing => (a = n /\ c.pc = "failed")
            /\ (c.pc = "failed" /\ n > 0 /\ ReplayUndisturbed)
                  => /\ stays(applied[n])
                     /\ \A rec \in LatestRecordsOf(ReplayFound, typeName) :
                           IF ReplaysBefore(applied[n], rec)
                           THEN stays(rec) /\ \A a \in 1..n : applied[a] # rec
                           ELSE rec = applied[n] \/ \E a \in 1..(n - 1) : applied[a] = rec
                     /\ \A a \in 1..(n - 1) :
                           QuarantinedAt(unknown, typeName, applied[a].id) = {}

\* The apply failed for the second of three rows: the first is deleted,
\* the second and the third are still in the quarantine, and the third was
\* not handed to apply.
C33_Witness ==
    /\ ReplayReturned /\ callers[1].pc = "failed" /\ ReplayUndisturbed
    /\ callers[1].typeName = unknownTypeName
    /\ Len(ReplayFound) = 3
    /\ Len(callers[1].applied) = 2
    /\ callers[1].applied[1].id = drainPersonID /\ callers[1].applied[1].atNs = 1
    /\ callers[1].applied[2].id = unknownID /\ callers[1].applied[2].atNs = MaxAtNs
    /\ Len(unknown) = 2
    /\ {unknown[j].id : j \in DOMAIN unknown} = {unknownID, customID}

\* C37: every record ReplayUnknownByType hands to apply has the id, atNs,
\* deleted flag and data bytes of a record that was given to UnknownInsert
\* under the replayed type name.
C37_QuarantineRoundTrip ==
    \A i \in DOMAIN callers :
        \A a \in DOMAIN callers[i].applied :
            \E k \in DOMAIN log :
               /\ log[k].op = "UnknownInsert" /\ ~log[k].err
               /\ log[k].table = callers[i].typeName
               /\ log[k].lines[1].id = callers[i].applied[a].id
               /\ log[k].lines[1].atNs = callers[i].applied[a].atNs
               /\ log[k].lines[1].deleted = callers[i].applied[a].deleted
               /\ log[k].lines[1].data = callers[i].applied[a].data

\* A deletion and a record whose data carries an unknown field went
\* through the quarantine and came out of the replay as they went in.
C37_Witness ==
    /\ ReplayReturned /\ callers[1].pc = "done"
    /\ Len(callers[1].applied) = 2
    /\ \E a \in DOMAIN callers[1].applied :
          callers[1].applied[a].data.payload = payloadWithUnknownField
    /\ \E a \in DOMAIN callers[1].applied :
          callers[1].applied[a].deleted /\ callers[1].applied[a].atNs = MaxAtNs + 1
    /\ \A a \in DOMAIN callers[1].applied :
          \E k \in DOMAIN log :
             log[k].op = "UnknownInsert" /\ log[k].lines[1] = callers[1].applied[a]

\* LocalMaxAtNs of every object of the Person table is the maximum of the
\* stored at_ns values and -1 in the store (rs, del).
LocalMaxIsMaxOrSentinel(rs, del) ==
    \A id \in Ids :
        LocalMaxAtNs(rs, del, PersonTableName, id)
            = SetMax(StoredTimes(rs, del, PersonTableName, id) \cup {-1})

\* C34: LocalMaxAtNs(table, id) is the maximum of the live row's at_ns, the
\* tombstone's at_ns and -1, hence -1 without local state; and a
\* one-record import for an object without local state is applied exactly
\* when the record's atNs is 0 or more.
C34_LocalMaxSentinel ==
    [][/\ LocalMaxIsMaxOrSentinel(rows, deleted)
       /\ LocalMaxIsMaxOrSentinel(rows', deleted')
       /\ (/\ last'.op = "ReadJSONL"
           /\ Len(last'.lines) = 1
           /\ IsPersonLine(last'.lines[1])
           /\ last'.lines[1].id \in Ids
           /\ StoredTimes(rows, deleted, PersonTableName, last'.lines[1].id) = {})
             => IF last'.lines[1].atNs >= 0
                THEN StateIsThatOf(rows', deleted', last'.lines[1])
                ELSE rows' = rows /\ deleted' = deleted]_vars

\* A deletion with atNs 0 was imported for an object without local state
\* and left its tombstone.
C34_Witness ==
    /\ last.op = "ReadJSONL" /\ ~last.err /\ ~last.repeat /\ nops = 0
    /\ last.lines = << PersonDeletion(customID, 0) >>
    /\ rows = {}
    /\ deleted = {[table_name |-> PersonTableName, id |-> customID, at_ns |-> 0]}

\* The line decodes and its data has no @type.
HasNoType(line) == ~line.malformed /\ line.data.type = ""

\* C35: a record whose data has no @type is skipped: ReadJSONL ends with
\* the live rows, tombstones, _sync rows and quarantine rows, and with the
\* result, that the stream without such records gives.
C35_NoTypeSkipped ==
    [][(/\ last'.op = "ReadJSONL"
        /\ \E i \in DOMAIN last'.lines : HasNoType(last'.lines[i]))
          => \A without \in {SelectSeq(last'.lines, LAMBDA line : ~HasNoType(line))} :
                \A r \in {CRUDReadJSONL(DB, last'.remote, without)} :
                   /\ rows' = r.db.rows
                   /\ deleted' = r.db.deleted
                   /\ sync' = r.db.sync
                   /\ unknown' = r.db.unknown
                   /\ last'.err = r.err]_vars

\* A record without @type came before a Person record in one stream: the
\* import returned nil, the Person is stored, and nothing of the first
\* record is.
C35_Witness ==
    /\ last.op = "ReadJSONL" /\ ~last.err /\ nops = 0
    /\ last.lines = << NoTypeRecord(customID, MaxAtNs + 1), PersonRecord(customID, 1, "Bob") >>
    /\ rows = {[table_name |-> PersonTableName, id |-> customID, at_ns |-> 1, data |-> "Bob"]}
    /\ deleted = {}
    /\ unknown = << >>
    /\ sync = {[object_id |-> customID, table_name |-> PersonTableName,
                remote |-> testRemoteA, at_ns |-> 1]}

\* The quarantine after step k of the log.
QuarantineAfter(k) == IF k < Len(log) THEN log[k + 1].seen.unknown ELSE unknown

\* The rows the statements of the replay removed from the quarantine.
RemovedByReplay ==
    UNION {{log[k].seen.unknown[i] : i \in DOMAIN log[k].seen.unknown}
              \ {QuarantineAfter(k)[j] : j \in DOMAIN QuarantineAfter(k)} :
           k \in {n \in DOMAIN log : log[n].op \in {"compact", "delete"}}}

\* The row was handed to apply, or a newer record of its key was.
AppliedOrOlderThanApplied(row) ==
    \E a \in DOMAIN callers[1].applied :
        /\ callers[1].typeName = row.type_name
        /\ callers[1].applied[a].id = row.id
        /\ callers[1].applied[a].atNs >= row.at_ns

\* A newer row of the key is in the quarantine.
NewerQuarantined(row) ==
    \E j \in QuarantinedAt(unknown, row.type_name, row.id) : unknown[j].at_ns > row.at_ns

\* C36 as stated: ReplayUnknownByType removes no quarantined record that
\* was neither passed to apply nor older than a record of the same
\* (type_name, id) that was passed to apply, also when UnknownInsert calls
\* interleave with its statements.
C36_RemovesOnlyApplied ==
    ReplayReturned => \A row \in RemovedByReplay : AppliedOrOlderThanApplied(row)

\* C36: a ReplayUnknownByType that runs in a transaction of its own, so that
\* no UnknownInsert comes between its statements, removes a quarantined
\* record only when the record was passed to apply, or a newer record of
\* the same (type_name, id) was passed to apply or is still in the
\* quarantine when the replay returns.
C36_SerialisedReplayLosesNothing ==
    (ReplayReturned /\ callers[1].inTx)
        => \A row \in RemovedByReplay : AppliedOrOlderThanApplied(row) \/ NewerQuarantined(row)

\* A replay in a transaction found two versions of one object and a second
\* object of the type: the older version was removed by the compaction, the
\* two rows left were applied and deleted.
C36_Witness ==
    /\ ReplayReturned /\ callers[1].inTx /\ callers[1].pc = "done"
    /\ Len(callers[1].applied) = 2
    /\ Cardinality(RemovedByReplay) = 3
    /\ \E row \in RemovedByReplay :
          \A a \in DOMAIN callers[1].applied :
             ~(callers[1].applied[a].id = row.id /\ callers[1].applied[a].atNs = row.at_ns)
    /\ unknown = << >>

\* The effective last-update time of (tableName, id) does not decrease from
\* the store (rs, del) to the store (rsAfter, delAfter).
TimeKept(rs, del, rsAfter, delAfter, tableName, id) ==
    LET before == StoredTimes(rs, del, tableName, id)
        after == StoredTimes(rsAfter, delAfter, tableName, id)
    IN  before # {} => (after # {} /\ SetMax(after) >= SetMax(before))

IsLocalWrite(op) == op \in {"Insert", "InsertWithID", "UpdateByID", "DeleteByID"}

\* C38 as stated: max(live.at_ns, tombstone.at_ns) of every (table, id)
\* never decreases over any sequence of local writes and imports, also
\* when an imported record carries an atNs ahead of the local clock.
C38_TimeNeverDecreases ==
    [][\A tableName \in {PersonTableName, NoteTableName}, id \in Ids :
          TimeKept(rows, deleted, rows', deleted', tableName, id)]_vars

\* C38: max(live.at_ns, tombstone.at_ns) of a (table, id) does not decrease
\* in an import, nor in a local write made when the clock has reached that
\* time.
C38_TimeKeptWithinClock ==
    [][\A tableName \in {PersonTableName, NoteTableName}, id \in Ids :
          (IsLocalWrite(last'.op)
              => \A t \in StoredTimes(rows, deleted, tableName, id) : t <= now)
             => TimeKept(rows, deleted, rows', deleted', tableName, id)]_vars

\* A Person was imported at a time the local clock had reached and then
\* deleted locally: the tombstone is not older than the imported row was.
C38_Witness ==
    /\ last.op = "DeleteByID" /\ ~last.err /\ last.id = customID /\ nops = 2
    /\ deleted = {[table_name |-> PersonTableName, id |-> customID, at_ns |-> last.atNs]}
    /\ \E w \in sync : /\ w.object_id = customID /\ w.remote = testRemoteA
                       /\ w.at_ns >= 1 /\ w.at_ns <= last.atNs

\* C39: a record that ReadJSONL(r, ...) applied for a non-empty remote r
\* leaves _sync for (id, table, r) at least at the record's atNs, and a
\* WriteJSONL(r) that follows the import with no change of the object in
\* between emits no line for the object.
C39_NoEcho ==
    [][(last'.op = "ReadJSONL" /\ ~last'.err /\ last'.remote # "")
          => \A i \in DOMAIN last'.lines :
                LET line == last'.lines[i]
                IN  (/\ IsPersonLine(line)
                     /\ line.id \in Ids
                     /\ line.atNs >= 0
                     /\ \A t \in StoredTimes(rows, deleted, PersonTableName, line.id) :
                           t < line.atNs)
                      => /\ \E t \in Watermarks(sync', line.id, PersonTableName, last'.remote) :
                               t >= line.atNs
                         /\ \A w \in {CRUDWriteJSONL([rows |-> rows', deleted |-> deleted',
                                                      sync |-> sync', unknown |-> unknown'],
                                                     last'.remote)} :
                               \A n \in DOMAIN w.out : w.out[n].id # line.id]_vars

\* A Person was imported from remote-a into an empty store and the export
\* to remote-a that followed carried nothing.
C39_Witness ==
    /\ last.op = "WriteJSONL" /\ last.remote = testRemoteA /\ last.out = << >>
    /\ nops = 2
    /\ rows = {[table_name |-> PersonTableName, id |-> customID, at_ns |-> MaxAtNs,
                data |-> "Bob"]}
    /\ sync = {[object_id |-> customID, table_name |-> PersonTableName,
                remote |-> testRemoteA, at_ns |-> MaxAtNs]}

\* The live rows and tombstones of the Person table in (rs, del).
PersonState(rs, del) ==
    [live |-> {r \in rs : r.table_name = PersonTableName},
     tomb |-> {r \in del : r.table_name = PersonTableName}]

\* Person.Init after the import of last.lines by a binary without Person
\* leaves the Person state that the import of the same lines by the binary
\* with Person gives on the store from before the import.
DrainEqualsDirectApply ==
    \A direct \in {CRUDReadJSONL([rows |-> rows, deleted |-> deleted, sync |-> sync,
                                  unknown |-> << >>], last.remote, last.lines)} :
        PersonState(rows', deleted') = PersonState(direct.db.rows, direct.db.deleted)

\* C40 as stated: for any set of records of one type, importing them while
\* the type is unknown and then running the type's Init yields the same
\* live row and tombstone for every id as importing them while the type is
\* known.
C40_DrainEqualsDirectAnySet ==
    [][(last.op = "ReadJSONLWithout" /\ last'.op = "TableInit")
          => DrainEqualsDirectApply]_vars

====
